---- MODULE Spec2Model ----
(***************************************************************************)
(* Model of the log Sink of req-log-admin: FileLogger (package reqlogmid)  *)
(* and DBLogger (example/main.go).  Both types have the same fields and    *)
(* the same Write / Close / Flush / startAsyncWriter / flushBuffer code;   *)
(* they differ only in the routine that persists one entry (writeEntry     *)
(* writes a JSON line through a bufio.Writer, insertEntry executes an      *)
(* INSERT), which is what `kind` picks.                                    *)
(*                                                                         *)
(* One Sink is modelled, with its drain goroutine (when async) and a set   *)
(* of caller goroutines that call Write, Flush and Close concurrently.     *)
(* A step is a call, a critical section of l.mu up to its first wait, a    *)
(* channel receive, or one call of writeEntry.                             *)
(***************************************************************************)
EXTENDS Integers, Sequences, FiniteSets, TLC

\* ---------------------------------------------------------------- bounds
\* capacity of bufferCh, the bufferSize argument of the constructor
BufferSize == 2
\* number of entries Write handles in one behaviour
MaxWrites == 3
\* number of caller goroutines
NumCallers == 2
\* "null" records kept in the modelled file; further ones are written by the
\* code but not recorded by the model
MaxNullRecords == 1
\* number of entries lost to a failing encoder / destination in one behaviour
MaxFailures == 1

Callers == 1..NumCallers
\* the nil *LogEntry, the zero value a receive on a closed channel yields
NilEntry == 0

VARIABLES
  kind,        \* "file" (FileLogger) or "db" (DBLogger)
  async,       \* the async argument of the constructor
  closed,      \* l.closed
  mu,          \* l.mu: 0 when free, else the caller holding it
  bufferCh,    \* l.bufferCh: the entries buffered in the channel, oldest first
  chClosed,    \* close(l.bufferCh) has been executed
  wg,          \* l.wg: its counter
  handleOpen,  \* l.file / l.db has not been closed
  writerErr,   \* FileLogger: l.writer holds an error (bufio.Writer keeps the
               \* first write error and refuses every later write)
  dest,        \* the records in the file / the rows of the table, oldest first
  panicked,    \* the process died of a runtime panic
  drain,       \* the drain goroutine: [pc, entry]
  pc,          \* per caller: where it is
  entry,       \* per caller: the local variable entry of flushBuffer
  ret,         \* per caller: the error value its last Write / Close returned
  nextId,      \* the entries are numbered in the order Write handles them under
               \* the mutex: the next one gets this number
  dropped,     \* history: the entries Write discarded on a full buffer
  failed,      \* history: the entries whose writeEntry / insertEntry returned an error
  flushObs,    \* history (ObsSpec only): the Flush call under observation -
               \* its caller (0: none) and bufferCh at the call
  closeObs,    \* history (ObsSpec only): the first Close call - its caller (0:
               \* none), bufferCh and nextId at the call, whether it returned
  closeReturned, \* history: some Close call has returned
  afterClose   \* history, per caller: its Write call started after a Close had returned

\* -------------------------------------------- bounds of the log store
\* the ids the sequence of the table hands out
MaxSerial == 5

\* ------------------------------------------- bounds of the request path
\* number of requests that enter the interceptor in one behaviour
NumRequests == 2
\* number of administrative tasks (each runs UpdateConfig / ResetConfig calls)
NumAdmins == 2
\* number of UpdateConfig / ResetConfig calls in one behaviour
MaxUpdates == 2
\* number of SetLogField calls made for one request
MaxSetField == 1

Requests == 1..NumRequests
Admins == 1..NumAdmins

VARIABLES
  config,      \* the shared *Config: its fields
  cfgReaders,  \* Config.RWMutex: the requests holding the read lock
  cfgWriter,   \* Config.RWMutex: the admin task holding the write lock, or 0
  heap,        \* the map[string]interface{} objects: id -> key/value pairs
  repo,        \* ConfigRepository: the row id = 1 of log_config (<<>>: no row)
  rpc,         \* per request: where its task is in the middleware function
  path,        \* per request: c.Request.URL.Path
  snap,        \* per request: the locals isEnabled, skipPaths, customFields,
               \* async, timeFormat
  nread,       \* per request: how many of these locals have been assigned
  mode,        \* per request: the branch that called c.Next()
  calls,       \* per request: how often c.Next() was called
  status,      \* per request: c.Writer.Status(), 0 before the handler set it
  ctx,         \* per request: the *LogEntry stored in the gin.Context under
               \* logEntryKey (<<>>: none)
  gpc,         \* per request: the goroutine of the async dispatch
  logCopy,     \* per request: the local logCopy of that goroutine
  warg,        \* per request: what the pointer given to logger.Write points
               \* at ("none": no call, "entry", "copy")
  wcalls,      \* per request: the number of logger.Write calls made
  rec,         \* per request: the custom fields of its record as the Sink
               \* serialized it (<<>>: not serialized)
  setCalls,    \* per request: the number of SetLogField calls made for it
  apc,         \* per admin task: where it is in UpdateConfig / ResetConfig
  areq,        \* per admin task: the bound UpdateConfigRequest (req)
  arow,        \* per admin task: the local cfg (*DBConfig)
  aidx,        \* per admin task: how many Config fields it has assigned
  aresp,       \* per admin task: the status of its last response
  ops,         \* the number of UpdateConfig / ResetConfig calls started
  cfgSeen,     \* history: the values Config held while no task held the write lock
  cfgHist,     \* history: per answered config change, what it was to install
  floor,       \* history, per request: Len(cfgHist) when it entered
  snapVals,    \* history, per request: its snapshot when it was complete
  sent,        \* history, per request: what its dispatch handed over
  table,       \* the rows of the request_logs table
  now,         \* the clock of the database (NOW()), in ticks
  serial,      \* the last value of the id sequence (BIGSERIAL)
  qres         \* the last call on the log store: its arguments and its result

\* the shared configuration and its lock
memVars == <<config, cfgReaders, cfgWriter, heap, repo>>
\* the state of the request tasks
reqVars == <<rpc, path, snap, nread, mode, calls, status, ctx, gpc, logCopy,
             warg, wcalls, rec, setCalls>>
\* the state of the admin tasks
admVars == <<apc, areq, arow, aidx, aresp, ops>>
\* the history variables of the request path
histVars == <<cfgSeen, cfgHist, floor, snapVals, sent>>
\* everything outside the Sink
mwVars == <<memVars, reqVars, admVars, histVars>>
\* the log store and the calls that read it
storeVars == <<table, now, serial, qres>>

vars == <<kind, async, closed, mu, bufferCh, chClosed, wg, handleOpen,
          writerErr, dest, panicked, drain, pc, entry, ret, nextId, dropped,
          failed, flushObs, closeObs, closeReturned, afterClose, mwVars,
          storeVars>>

\* the constructor arguments
cfgVars == <<kind, async>>
\* what one writeEntry / insertEntry call can change
outVars == <<dest, failed, writerErr, panicked>>
\* the history variables that only calls and returns change
obsVars == <<flushObs, closeObs, closeReturned, afterClose>>

\* ------------------------------------------------------------- helpers
Range(s) == {s[i] : i \in 1..Len(s)}

Count(s, x) == Cardinality({i \in 1..Len(s) : s[i] = x})

\* l.quit is made by the constructor and never closed nor sent to
quitReady == FALSE

\* the constructor never leaves bufferCh nil
bufferChNil == FALSE

\* no call is under observation
NoFlushObs == [who |-> 0, buf |-> <<>>]

NoCloseObs == [who |-> 0, buf |-> <<>>, mark |-> 0, done |-> FALSE]

\* closeObs after a Close call of c has returned
closeObsReturn(c) ==
  IF closeObs.who = c THEN [closeObs EXCEPT !.done = TRUE] ELSE closeObs

\* =================================================================
\* RuntimeConfig (type Config), the admin handlers UpdateConfig and
\* ResetConfig with their ConfigRepository, and the request interceptor
\* RequestLoggerWithConfig with SetLogField.
\* =================================================================

\* ------------------------------------------------------------ strings
\* A Go string is modelled as the sequence of its characters.
\* "/health"
HealthPath ==
  <<"/", "h", "e", "a", "l", "t", "h">>

\* "/metrics"
MetricsPath ==
  <<"/", "m", "e", "t", "r", "i", "c", "s">>

\* "/.well-known/appspecific/com.chrome.devtools.json"
DevtoolsPath ==
  <<"/", ".", "w", "e", "l", "l", "-", "k", "n", "o", "w", "n", "/", "a",
  "p", "p", "s", "p", "e", "c", "i", "f", "i", "c", "/", "c", "o", "m",
  ".", "c", "h", "r", "o", "m", "e", ".", "d", "e", "v", "t", "o", "o",
  "l", "s", ".", "j", "s", "o", "n">>

\* "/heal": a request path that is a proper prefix of "/health"
HealPath ==
  <<"/", "h", "e", "a", "l">>

\* the paths of the requests
Paths == {HealthPath, HealPath}

\* strings.Join(paths, ",")
RECURSIVE JoinSkipPaths(_)
JoinSkipPaths(paths) ==
  IF paths = <<>> THEN <<>>
  ELSE IF Len(paths) = 1 THEN paths[1]
  ELSE paths[1] \o <<",">> \o JoinSkipPaths(Tail(paths))

\* the loop of splitComma: i runs over s, start is where the current piece
\* began; after the loop the last piece is appended
RECURSIVE splitLoop(_, _, _, _)
splitLoop(s, i, start, result) ==
  IF i > Len(s) THEN Append(result, SubSeq(s, start, Len(s)))
  ELSE IF s[i] = ","
       THEN splitLoop(s, i + 1, i + 1, Append(result, SubSeq(s, start, i - 1)))
       ELSE splitLoop(s, i + 1, start, result)

splitComma(s) == splitLoop(s, 1, 1, <<>>)

\* strings.TrimSpace, with the blank as the only white space character
RECURSIVE TrimSpace(_)
TrimSpace(p) ==
  IF p # <<>> /\ Head(p) = " " THEN TrimSpace(Tail(p))
  ELSE IF p # <<>> /\ p[Len(p)] = " " THEN TrimSpace(SubSeq(p, 1, Len(p) - 1))
  ELSE p

\* the loop of ParseSkipPaths over the pieces
RECURSIVE trimmedNonEmpty(_)
trimmedNonEmpty(pieces) ==
  IF pieces = <<>> THEN <<>>
  ELSE LET p == TrimSpace(Head(pieces))
       IN (IF p # <<>> THEN <<p>> ELSE <<>>) \o trimmedNonEmpty(Tail(pieces))

\* ParseSkipPaths: "" gives nil (the empty sequence), else the trimmed,
\* non-empty pieces between the commas
ParseSkipPaths(paths) ==
  IF paths = <<>> THEN <<>> ELSE trimmedNonEmpty(splitComma(paths))

\* ------------------------------------------------------------ maps
\* A map[string]interface{} is an object of the heap: a reference is the
\* object's id, and heap[id] is its content, a set of <<key, value>> pairs.
\* the nil map
NilMap == 0

\* the map ParseCustomFields makes (json.Unmarshal into a new map): the
\* first id no earlier call has used
TemplateMaps == 1..MaxUpdates

\* the map the interceptor makes for the entry of request r
EntryMap(r) == MaxUpdates + r

\* the map SetLogField makes for the entry of request r
FieldMap(r) == MaxUpdates + NumRequests + r

MapIds == 1..(MaxUpdates + 2 * NumRequests)

\* the key/value pairs reachable through a reference
Content(h, ref) == IF ref = NilMap THEN {} ELSE h[ref]

\* m[k] = v
Put(m, k, v) == {kv \in m : kv[1] # k} \cup {<<k, v>>}

\* The custom_fields column holds a JSON object; it is modelled as the set
\* of its key/value pairs, "{}" being the empty set.
\* MarshalCustomFields: nil gives "{}", else json.Marshal(fields)
MarshalCustomFields(fields) == fields

\* ParseCustomFields: "" and "{}" give nil, else a new map (id) holding the
\* pairs of the object
ParseCustomFields(jsonStr, id) == IF jsonStr = {} THEN NilMap ELSE id

\* ------------------------------------------------------ configuration
DefaultTimeFormat == "2006-01-02T15:04:05.000Z07:00"

\* the time formats a Config is constructed with
TimeFormats == {"2006-01-02 15:04:05"}

\* DefaultConfig()
DefaultConfig ==
  [Enabled |-> TRUE,
   SkipPaths |-> <<HealthPath, MetricsPath, DevtoolsPath>>,
   CustomFields |-> NilMap,
   TimeFormat |-> DefaultTimeFormat,
   Async |-> TRUE,
   BufferSize |-> 1000]

\* ConfigRepository.getDefaultConfig(): the row "/health,/metrics", "{}"
getDefaultConfig ==
  [ID |-> 1,
   Enabled |-> TRUE,
   AsyncMode |-> TRUE,
   BufferSize |-> 1000,
   SkipPaths |-> HealthPath \o <<",">> \o MetricsPath,
   CustomFields |-> {}]

\* the rows the repository may hold when the process starts
StartRows == {getDefaultConfig, [getDefaultConfig EXCEPT !.AsyncMode = FALSE]}

\* the locals the interceptor assigns under the read lock, in that order
ReadFields == <<"Enabled", "SkipPaths", "CustomFields", "Async", "TimeFormat">>

\* the fields UpdateConfig assigns under the write lock, in that order
UpdateFields == <<"Enabled", "SkipPaths", "CustomFields", "Async", "BufferSize">>

\* the fields ResetConfig assigns under the write lock, in that order
ResetFields ==
  <<"Enabled", "SkipPaths", "CustomFields", "TimeFormat", "Async", "BufferSize">>

\* the locals before they are assigned
NoSnapshot ==
  [Enabled |-> FALSE, SkipPaths |-> <<>>, CustomFields |-> NilMap,
   Async |-> FALSE, TimeFormat |-> ""]

\* the same with the custom fields by content
NoSnapshotValues == [NoSnapshot EXCEPT !.CustomFields = {}]

\* the five values a request reads, taken from a Config value
Snapshot(c) == [f \in {ReadFields[i] : i \in 1..Len(ReadFields)} |-> c[f]]

\* the bodies of the UpdateConfig calls (UpdateConfigRequest): an absent
\* field (nil pointer, nil slice, nil map) is <<>>, a present one <<value>>
DisableRequest ==
  [op |-> "update", Enabled |-> <<FALSE>>, SkipPaths |-> <<>>,
   CustomFields |-> <<>>, Async |-> <<>>, BufferSize |-> <<>>]

RetargetRequest ==
  [op |-> "update", Enabled |-> <<>>, SkipPaths |-> << <<HealPath>> >>,
   CustomFields |-> << {<<"env", "prod">>} >>, Async |-> <<FALSE>>,
   BufferSize |-> <<>>]

UpdateRequests == {DisableRequest, RetargetRequest}

\* a ResetConfig call has no body
ResetRequest ==
  [op |-> "reset", Enabled |-> <<>>, SkipPaths |-> <<>>, CustomFields |-> <<>>,
   Async |-> <<>>, BufferSize |-> <<>>]

\* the process starts (admin.Start): logConfig is DefaultConfig() with the
\* fields of the stored row; no request has entered, no admin call started
Startup(row, tf) ==
  /\ repo = row
  /\ config = [DefaultConfig EXCEPT
                 !.Enabled = row.Enabled,
                 !.Async = row.AsyncMode,
                 !.BufferSize = row.BufferSize,
                 !.SkipPaths = ParseSkipPaths(row.SkipPaths),
                 !.CustomFields = ParseCustomFields(row.CustomFields, 1),
                 !.TimeFormat = tf]
  /\ cfgReaders = {}
  /\ cfgWriter = 0
  /\ heap = [id \in MapIds |->
             IF id = 1 THEN row.CustomFields ELSE {}]
  /\ rpc = [r \in Requests |-> "new"]
  /\ path = [r \in Requests |-> <<>>]
  /\ snap = [r \in Requests |-> NoSnapshot]
  /\ nread = [r \in Requests |-> 0]
  /\ mode = [r \in Requests |-> "none"]
  /\ calls = [r \in Requests |-> 0]
  /\ status = [r \in Requests |-> 0]
  /\ ctx = [r \in Requests |-> <<>>]
  /\ gpc = [r \in Requests |-> "none"]
  /\ logCopy = [r \in Requests |-> <<>>]
  /\ warg = [r \in Requests |-> "none"]
  /\ wcalls = [r \in Requests |-> 0]
  /\ rec = [r \in Requests |-> <<>>]
  /\ setCalls = [r \in Requests |-> 0]
  /\ apc = [a \in Admins |-> "idle"]
  /\ areq = [a \in Admins |-> ResetRequest]
  /\ arow = [a \in Admins |-> getDefaultConfig]
  /\ aidx = [a \in Admins |-> 0]
  /\ aresp = [a \in Admins |-> 0]
  /\ ops = 0
  /\ cfgSeen = {Snapshot(config)}
  /\ cfgHist = <<[Enabled |-> row.Enabled,
                  SkipPaths |-> ParseSkipPaths(row.SkipPaths),
                  CustomFields |-> row.CustomFields,
                  Async |-> row.AsyncMode]>>
  /\ floor = [r \in Requests |-> 0]
  /\ snapVals = [r \in Requests |-> NoSnapshotValues]
  /\ sent = [r \in Requests |-> <<>>]

\* ------------------------------------------------------- the log store
\* The request_logs table of DBLogger and the calls that read it.  A row is
\* a record of the columns the calls use; a string is a tuple of symbols
\* (the empty string is <<>>), a time is a number of clock ticks.

\* the ticks of one day
DayLen == 2

\* a row of request_logs
Row(id, method, p, statusCode, duration, createdAt) ==
  [id |-> id, method |-> method, path |-> p, status_code |-> statusCode,
   duration_ms |-> duration, created_at |-> createdAt]

\* the path "/ab"
PathAB == <<"/", "a", "b">>

\* a store without rows
EmptyStore == [rows |-> {}, now |-> 0]

\* rows aged 10, 8, 6 and 1 days
AgedStore ==
  [rows |-> {Row(1, <<"GET">>, PathAB, 200, 10, 0),
             Row(2, <<"GET">>, PathAB, 200, 10, 2 * DayLen),
             Row(3, <<"GET">>, PathAB, 200, 10, 4 * DayLen),
             Row(4, <<"GET">>, PathAB, 200, 10, 9 * DayLen)},
   now |-> 10 * DayLen]

\* four rows created today, statuses 200, 200, 404, 500, durations 10..40
StatsStore ==
  [rows |-> {Row(1, <<"GET">>, PathAB, 200, 10, 2 * DayLen),
             Row(2, <<"GET">>, PathAB, 200, 20, 2 * DayLen),
             Row(3, <<"GET">>, PathAB, 404, 30, 2 * DayLen + 1),
             Row(4, <<"GET">>, PathAB, 500, 40, 2 * DayLen + 1)},
   now |-> 2 * DayLen + 1]

\* rows that differ in method, path ("/ab", "/a_b", "/aXb") and status, two
\* of them created at the same time
QueryStore ==
  [rows |-> {Row(1, <<"GET">>, PathAB, 200, 10, 1),
             Row(2, <<"POST">>, <<"/", "a", "_", "b">>, 404, 20, 3),
             Row(3, <<"GET">>, <<"/", "a", "X", "b">>, 500, 30, 3)},
   now |-> 4]

\* the stores a run starts from
SampleStores == {EmptyStore, AgedStore, StatsStore, QueryStore}

\* no call was made yet
NoResult == [op |-> "none", arg |-> <<>>, val |-> <<>>, tbl |-> {}, at |-> 0]

\* the store as the process finds it
OpenStore(st) ==
  /\ table = st.rows
  /\ now = st.now
  /\ serial = Cardinality(st.rows)
  /\ qres = NoResult

\* a key is missing (<<>>) or holds a value (<<v>>)
Opt(S) == {<<>>} \cup {<<v>> : v \in S}

\* the map with the keys that are not missing
MkConditions(m, p, sc, st, et) ==
  LET o == [method |-> m, path |-> p, status_code |-> sc,
            start_time |-> st, end_time |-> et]
  IN [k \in {j \in DOMAIN o : Len(o[j]) > 0} |-> o[k][1]]

\* the conditions maps the calls are made with: under each key no value,
\* the zero value ("" or 0) or a filter
ConditionMaps ==
  {MkConditions(m, p, sc, st, et) :
     m \in Opt({<<>>, <<"GET">>}),
     p \in Opt({<<>>, <<"a", "b">>, <<"a", "_", "b">>, <<"%">>}),
     sc \in Opt({0, 404}),
     st \in Opt({<<>>, <<3>>}),
     et \in Opt({<<>>, <<1>>})}

\* conds = append(conds, ...): one clause of the WHERE conjunction
Clause(col, op, arg) == [col |-> col, op |-> op, arg |-> arg]

\* if v, ok := conditions[key]; ok && v != "" (or != 0) {...}
present(conditions, key, zero) ==
  key \in DOMAIN conditions /\ conditions[key] # zero

\* the clauses QueryLogs builds, in the order it appends them
QueryConds(conditions) ==
  (IF present(conditions, "method", <<>>)
   THEN <<Clause("method", "=", conditions["method"])>> ELSE <<>>)
  \o (IF present(conditions, "path", <<>>)
      THEN <<Clause("path", "LIKE",
                    <<"%">> \o conditions["path"] \o <<"%">>)>> ELSE <<>>)
  \o (IF present(conditions, "status_code", 0)
      THEN <<Clause("status_code", "=", conditions["status_code"])>>
      ELSE <<>>)
  \o (IF present(conditions, "start_time", <<>>)
      THEN <<Clause("created_at", ">=", conditions["start_time"][1])>>
      ELSE <<>>)
  \o (IF present(conditions, "end_time", <<>>)
      THEN <<Clause("created_at", "<=", conditions["end_time"][1])>>
      ELSE <<>>)

\* the clauses CountLogs builds
CountConds(conditions) ==
  (IF present(conditions, "method", <<>>)
   THEN <<Clause("method", "=", conditions["method"])>> ELSE <<>>)
  \o (IF present(conditions, "start_time", <<>>)
      THEN <<Clause("created_at", ">=", conditions["start_time"][1])>>
      ELSE <<>>)
  \o (IF present(conditions, "end_time", <<>>)
      THEN <<Clause("created_at", "<=", conditions["end_time"][1])>>
      ELSE <<>>)

\* s[i..] LIKE pat[j..]: % stands for any string, _ for any one symbol, and
\* the symbol after a backslash for itself
RECURSIVE likeFrom(_, _, _, _)
likeFrom(s, i, pat, j) ==
  IF j > Len(pat) THEN i > Len(s)
  ELSE IF pat[j] = "%"
  THEN likeFrom(s, i, pat, j + 1)
         \/ (i <= Len(s) /\ likeFrom(s, i + 1, pat, j))
  ELSE IF pat[j] = "_"
  THEN i <= Len(s) /\ likeFrom(s, i + 1, pat, j + 1)
  ELSE IF pat[j] = "\\"
  THEN j < Len(pat) /\ i <= Len(s) /\ s[i] = pat[j + 1]
         /\ likeFrom(s, i + 1, pat, j + 2)
  ELSE i <= Len(s) /\ s[i] = pat[j] /\ likeFrom(s, i + 1, pat, j + 1)

\* the row satisfies the clause
Sat(row, c) ==
  CASE c.op = "=" -> row[c.col] = c.arg
    [] c.op = "LIKE" -> likeFrom(row[c.col], 1, c.arg, 1)
    [] c.op = ">=" -> row[c.col] >= c.arg
    [] c.op = "<=" -> row[c.col] <= c.arg

\* WHERE c1 AND c2 AND ...; no WHERE when there is no clause
Where(rows, conds) ==
  {row \in rows : \A i \in 1..Len(conds) : Sat(row, conds[i])}

\* ORDER BY created_at DESC: every arrangement of the rows in which no row
\* comes before a younger one (rows of equal created_at in any order)
RECURSIVE OrderByCreatedAtDesc(_)
OrderByCreatedAtDesc(rows) ==
  IF rows = {} THEN {<<>>}
  ELSE UNION {{<<r>> \o q : q \in OrderByCreatedAtDesc(rows \ {r})} :
                r \in {x \in rows :
                         \A y \in rows : x.created_at >= y.created_at}}

\* LIMIT limit OFFSET offset
LimitOffset(q, limit, offset) ==
  SubSeq(q, offset + 1,
         IF offset + limit < Len(q) THEN offset + limit ELSE Len(q))

\* convertToLocalTime: the fields of the time are kept, its location
\* becomes Local (the driver hands the TIMESTAMP over as a UTC time)
convertToLocalTime(t) == [t EXCEPT !.loc = "Local"]

\* rows.Scan into a DBLogEntry, then the conversion of CreatedAt
Scan(row) ==
  [ID |-> row.id, Method |-> row.method, Path |-> row.path,
   StatusCode |-> row.status_code, Duration |-> row.duration_ms,
   CreatedAt |-> convertToLocalTime([wall |-> row.created_at, loc |-> "UTC"])]

\* the slices QueryLogs may return
QueryLogs(offset, limit, conditions) ==
  {[i \in 1..Len(LimitOffset(q, limit, offset)) |->
      Scan(LimitOffset(q, limit, offset)[i])] :
     q \in OrderByCreatedAtDesc(Where(table, QueryConds(conditions)))}

\* SELECT COUNT(*) ... WHERE ...
CountLogs(conditions) ==
  Cardinality(Where(table, CountConds(conditions)))

\* a comparison that also takes the rows created exactly days days ago
olderOrEqual(createdAt, limit) == createdAt <= limit

\* created_at < NOW() - INTERVAL 'days days'
older(createdAt, limit) == createdAt < limit

\* the rows DeleteOldLogs(days) deletes
oldLogs(days) == {row \in table : older(row.created_at, now - days * DayLen)}

RECURSIVE sumDuration(_)
sumDuration(rows) ==
  IF rows = {} THEN 0
  ELSE LET r == CHOOSE x \in rows : TRUE
       IN r.duration_ms + sumDuration(rows \ {r})

\* the quotients a[1]/a[2] and b[1]/b[2], kept as pairs of their terms, are
\* equal
RatioEq(a, b) == a[1] * b[2] = b[1] * a[2]

\* SELECT COUNT(*) ... WHERE DATE(created_at) = CURRENT_DATE
GetTodayLogsCount ==
  Cardinality({row \in table :
                 row.created_at \div DayLen = now \div DayLen})

\* SELECT COUNT(*)
GetTotalLogsCount == Cardinality(table)

\* SELECT COALESCE(AVG(duration_ms), 0)
GetAvgDuration ==
  IF table = {} THEN <<0, 1>>
  ELSE <<sumDuration(table), Cardinality(table)>>

\* a test that takes only the statuses from 500 on for errors
isServerError(statusCode) == statusCode >= 500

\* CASE WHEN status_code >= 400 THEN 1 ELSE 0 END
isError(statusCode) == statusCode >= 400

\* SELECT COALESCE(100.0 * SUM(CASE ...) / NULLIF(COUNT(*), 0), 0)
GetErrorRate ==
  IF table = {} THEN <<0, 1>>
  ELSE <<100 * Cardinality({row \in table : isError(row.status_code)}),
             Cardinality(table)>>

\* QueryLogs(offset, limit, conditions) is called and returns
QueryLogsCall(offset, limit, conditions) ==
  /\ qres = NoResult
  /\ \E res \in QueryLogs(offset, limit, conditions) :
       qres' = [op |-> "query",
                arg |-> [offset |-> offset, limit |-> limit,
                         conditions |-> conditions],
                val |-> res, tbl |-> table, at |-> now]
  /\ UNCHANGED <<table, now, serial>>

\* CountLogs(conditions) is called and returns
CountLogsCall(conditions) ==
  /\ qres = NoResult
  /\ qres' = [op |-> "count", arg |-> [conditions |-> conditions],
              val |-> CountLogs(conditions), tbl |-> table, at |-> now]
  /\ UNCHANGED <<table, now, serial>>

\* DeleteOldLogs(days) is called and returns result.RowsAffected()
DeleteOldLogs(days) ==
  /\ qres = NoResult
  /\ table' = table \ oldLogs(days)
  /\ qres' = [op |-> "delete", arg |-> [days |-> days],
              val |-> Cardinality(oldLogs(days)), tbl |-> table, at |-> now]
  /\ UNCHANGED <<now, serial>>

\* GetStats is called; its four queries follow one by one
GetStatsCall ==
  /\ qres = NoResult
  /\ qres' = [op |-> "stats", arg |-> [step |-> 0],
              val |-> [today |-> 0, total |-> 0, avg |-> <<0, 1>>,
                       rate |-> <<0, 1>>],
              tbl |-> <<>>, at |-> now]
  /\ UNCHANGED <<table, now, serial>>

\* the next query of GetStats: GetTodayLogsCount, GetTotalLogsCount,
\* GetAvgDuration, GetErrorRate; tbl lists the tables they read
GetStatsQuery ==
  /\ qres.op = "stats"
  /\ qres.arg.step < 4
  /\ qres' = [qres EXCEPT
       !.arg.step = @ + 1,
       !.tbl = Append(@, table),
       !.val = CASE qres.arg.step = 0 ->
                      [@ EXCEPT !.today = GetTodayLogsCount]
                 [] qres.arg.step = 1 ->
                      [@ EXCEPT !.total = GetTotalLogsCount]
                 [] qres.arg.step = 2 ->
                      [@ EXCEPT !.avg = GetAvgDuration]
                 [] qres.arg.step = 3 ->
                      [@ EXCEPT !.rate = GetErrorRate]]
  /\ UNCHANGED <<table, now, serial>>

\* insertEntry's INSERT of a POST /ab 500 entry that took 40 ms, one tick
\* after the last statement: created_at is the current time, id the next
\* value of the sequence
\* a call of the admin handler has returned and its result is not sent yet
resultHeld ==
  IF qres.op = "stats" THEN qres.arg.step = 4 ELSE qres.op # "none"

\* the admin handler sends its response; the result is gone with it
Respond ==
  /\ resultHeld
  /\ qres' = NoResult
  /\ UNCHANGED <<table, now, serial>>

InsertRow ==
  /\ serial < MaxSerial
  /\ ~resultHeld
  /\ serial' = serial + 1
  /\ now' = now + 1
  /\ table' = table \cup {Row(serial + 1, <<"POST">>, PathAB, 500, 40, now')}
  /\ UNCHANGED qres

\* --------------------------------- constructor: NewFileLogger / NewDBLogger
\* NewFileLogger / NewDBLogger with the async argument a; k is the type.
\* bufferCh is made whatever async is; the drain goroutine starts only if async
NewLogger(k, a) ==
  /\ kind = k
  /\ async = a
  /\ closed = FALSE
  /\ mu = 0
  /\ bufferCh = <<>>
  /\ chClosed = FALSE
  /\ wg = IF a THEN 1 ELSE 0
  /\ handleOpen = TRUE
  /\ writerErr = FALSE
  /\ dest = <<>>
  /\ panicked = FALSE
  /\ drain = [pc |-> IF a THEN "select" ELSE "none", entry |-> NilEntry]
  /\ pc = [c \in Callers |-> "idle"]
  /\ entry = [c \in Callers |-> NilEntry]
  /\ ret = [c \in Callers |-> "none"]
  /\ nextId = 1
  /\ dropped = {}
  /\ failed = {}
  /\ flushObs = NoFlushObs
  /\ closeObs = NoCloseObs
  /\ closeReturned = FALSE
  /\ afterClose = [c \in Callers |-> FALSE]

\* a Sink of either type and mode, used directly by its callers: no request
\* enters the interceptor and no admin call is made
Init ==
  /\ \E k \in {"file", "db"} : \E a \in BOOLEAN : NewLogger(k, a)
  /\ Startup(getDefaultConfig, DefaultTimeFormat)
  /\ OpenStore(EmptyStore)

\* ------------------------------------------- writeEntry / insertEntry
\* the destination or the encoder may still fail (at most MaxFailures
\* entries are lost to such failures in one behaviour)
canFail == Cardinality(failed) < MaxFailures

\* The outcomes of persisting e.
\*  - A nil entry: json.Marshal of a nil *LogEntry gives "null", so
\*    FileLogger writes the line "null"; insertEntry dereferences
\*    entry.CustomFields and panics.
\*  - FileLogger: json.Marshal may fail on the entry's custom fields
\*    (DBLogger discards that error).
\*  - The write fails on a closed file / db and on a bufio.Writer that holds
\*    an error; otherwise the destination decides.
writeOutcomes(e) ==
  IF e = NilEntry /\ kind = "db" THEN {"panic"}
  ELSE (IF kind = "file" /\ e # NilEntry /\ canFail THEN {"errMarshal"} ELSE {})
         \cup (IF ~handleOpen \/ writerErr THEN {"errIO"}
               ELSE IF canFail THEN {"ok", "errIO"}
               ELSE {"ok"})

\* the destination after a successful write of e
appendRecord(d, e) ==
  IF e = NilEntry /\ Count(d, NilEntry) >= MaxNullRecords THEN d
  ELSE Append(d, e)

\* The effect of one writeEntry(e) call with outcome o.  racing: another
\* goroutine is inside writeEntry on the same bufio.Writer; the two then
\* write its err field without synchronisation and either value may stay.
writeEntry(e, o, racing) ==
  /\ dest' = IF o = "ok" THEN appendRecord(dest, e) ELSE dest
  /\ failed' = IF o \in {"errMarshal", "errIO"} /\ e # NilEntry
               THEN failed \cup {e} ELSE failed
  /\ writerErr' \in IF kind = "file" /\ o = "errIO"
                    THEN (IF racing THEN {TRUE, FALSE} ELSE {TRUE})
                    ELSE {writerErr}
  /\ panicked' = (o = "panic")

\* ----------------------------------------------------- drain goroutine
\* select { case entry, ok := <-l.bufferCh ... case <-l.quit ... }
DrainRecv ==
  /\ ~panicked
  /\ drain.pc = "select"
  /\ \/ /\ Len(bufferCh) > 0
        /\ drain' = [pc |-> "write", entry |-> Head(bufferCh)]
        /\ bufferCh' = Tail(bufferCh)
     \/ /\ Len(bufferCh) = 0
        /\ chClosed \/ quitReady
        /\ drain' = [pc |-> "flush", entry |-> NilEntry]
        /\ UNCHANGED bufferCh
  /\ UNCHANGED <<storeVars, mwVars, cfgVars, outVars, obsVars, closed, mu, chClosed, wg,
                 handleOpen, pc, entry, ret, nextId, dropped>>

\* l.writeEntry(entry) of the loop; an error is printed and the loop goes on
DrainWrite ==
  /\ ~panicked
  /\ drain.pc = "write"
  /\ \E o \in writeOutcomes(drain.entry) :
       writeEntry(drain.entry, o, \E c \in Callers : pc[c] = "F_write")
  /\ drain' = [pc |-> "select", entry |-> NilEntry]
  /\ UNCHANGED <<storeVars, mwVars, cfgVars, obsVars, closed, mu, bufferCh, chClosed, wg,
                 handleOpen, pc, entry, ret, nextId, dropped>>

\* flushBuffer's select { case entry := <-l.bufferCh ... default: return }.
\* A receive on a closed channel is always ready: it yields the buffered
\* entries and then nil, so default is taken only while the channel is open.
flushRecvReady == Len(bufferCh) > 0 \/ chClosed

flushRecvEntry == IF Len(bufferCh) > 0 THEN Head(bufferCh) ELSE NilEntry

flushRecvRest == IF Len(bufferCh) > 0 THEN Tail(bufferCh) ELSE bufferCh

\* one pass of flushBuffer's select in the drain goroutine; on default
\* flushBuffer returns, the goroutine returns and the deferred wg.Done() runs
DrainFlushSelect ==
  /\ ~panicked
  /\ drain.pc = "flush"
  /\ IF flushRecvReady
     THEN /\ drain' = [pc |-> "flushWrite", entry |-> flushRecvEntry]
          /\ bufferCh' = flushRecvRest
          /\ UNCHANGED wg
     ELSE /\ drain' = [pc |-> "done", entry |-> NilEntry]
          /\ wg' = wg - 1
          /\ UNCHANGED bufferCh
  /\ UNCHANGED <<storeVars, mwVars, cfgVars, outVars, obsVars, closed, mu, chClosed, handleOpen,
                 pc, entry, ret, nextId, dropped>>

\* l.writeEntry(entry) of flushBuffer in the drain goroutine
DrainFlushWrite ==
  /\ ~panicked
  /\ drain.pc = "flushWrite"
  /\ \E o \in writeOutcomes(drain.entry) :
       writeEntry(drain.entry, o, \E c \in Callers : pc[c] = "F_write")
  /\ drain' = [pc |-> "flush", entry |-> NilEntry]
  /\ UNCHANGED <<storeVars, mwVars, cfgVars, obsVars, closed, mu, bufferCh, chClosed, wg,
                 handleOpen, pc, entry, ret, nextId, dropped>>

\* ------------------------------------------------------------- Write
\* a Write that does not test l.closed
isClosedSkipped == FALSE

\* if l.closed { return fmt.Errorf("logger is closed") }
isClosed == closed

\* a channel that takes one entry more than its capacity
canSendOneMore == Len(bufferCh) <= BufferSize

\* case l.bufferCh <- entry: the send is ready while the channel has room.
\* (A drain goroutine waiting in its receive takes the entry at once; that is
\* the send followed by DrainRecv.)
canSend == Len(bufferCh) < BufferSize

\* the Write calls that have started and not yet been handled
pendingWrites == Cardinality({c \in Callers : pc[c] = "W_lock"})

\* a caller calls Write(entry) with an entry of its own
WriteCall(c) ==
  /\ ~panicked
  /\ pc[c] = "idle"
  /\ nextId + pendingWrites <= MaxWrites
  /\ pc' = [pc EXCEPT ![c] = "W_lock"]
  /\ ret' = [ret EXCEPT ![c] = "none"]
  /\ afterClose' = [afterClose EXCEPT ![c] = closeReturned]
  /\ UNCHANGED <<storeVars, mwVars, cfgVars, outVars, closed, mu, bufferCh, chClosed, wg,
                 handleOpen, drain, entry, nextId, dropped, flushObs, closeObs,
                 closeReturned>>

\* Write from l.mu.Lock() to the deferred l.mu.Unlock(): the lock is taken
\* when it is free, and nothing the body does under it (the closed test, the
\* non-blocking send) waits.  The entry of a call that gets past the closed
\* test is entry number nextId.
WriteBody(c) ==
  /\ ~panicked
  /\ pc[c] = "W_lock"
  /\ mu = 0
  /\ \E o \in writeOutcomes(nextId) :
       IF isClosed
       THEN /\ ret' = [ret EXCEPT ![c] = "errClosed"]
            /\ UNCHANGED <<bufferCh, nextId, dropped, outVars>>
       ELSE IF ~bufferChNil
       THEN IF chClosed
            THEN \* a send on a closed channel panics
                 /\ panicked' = TRUE
                 /\ UNCHANGED <<bufferCh, nextId, dropped, dest, failed,
                                writerErr, ret>>
            ELSE IF canSend
            THEN /\ bufferCh' = Append(bufferCh, nextId)
                 /\ nextId' = nextId + 1
                 /\ ret' = [ret EXCEPT ![c] = "nil"]
                 /\ UNCHANGED <<dropped, outVars>>
            ELSE \* default: the entry is dropped
                 /\ dropped' = dropped \cup {nextId}
                 /\ nextId' = nextId + 1
                 /\ ret' = [ret EXCEPT ![c] = "nil"]
                 /\ UNCHANGED <<bufferCh, outVars>>
       ELSE \* return l.writeEntry(entry)
            /\ writeEntry(nextId, o, FALSE)
            /\ nextId' = nextId + 1
            /\ ret' = [ret EXCEPT ![c] = IF o = "ok" THEN "nil" ELSE "errIO"]
            /\ UNCHANGED <<bufferCh, dropped>>
  /\ pc' = [pc EXCEPT ![c] = "idle"]
  /\ UNCHANGED <<storeVars, mwVars, cfgVars, obsVars, closed, mu, chClosed, wg, handleOpen, drain,
                 entry>>

\* ------------------------------------------------------------- Close
\* a caller calls Close(); observe: the call is recorded in closeObs
CloseCall(c, observe) ==
  /\ ~panicked
  /\ pc[c] = "idle"
  /\ pc' = [pc EXCEPT ![c] = "C_lock"]
  /\ ret' = [ret EXCEPT ![c] = "none"]
  /\ closeObs' = IF observe /\ closeObs.who = 0
                 THEN [who |-> c, buf |-> bufferCh, mark |-> nextId,
                       done |-> FALSE]
                 ELSE closeObs
  /\ UNCHANGED <<storeVars, mwVars, cfgVars, outVars, closed, mu, bufferCh, chClosed, wg,
                 handleOpen, drain, entry, nextId, dropped, flushObs,
                 closeReturned, afterClose>>

\* Close from l.mu.Lock() to l.wg.Wait(): if l.closed { return nil };
\* l.closed = true; close(l.bufferCh).  The lock is kept across the wait.
CloseBody(c) ==
  /\ ~panicked
  /\ pc[c] = "C_lock"
  /\ mu = 0
  /\ IF closed
     THEN /\ ret' = [ret EXCEPT ![c] = "nil"]
          /\ pc' = [pc EXCEPT ![c] = "idle"]
          /\ closeReturned' = TRUE
          /\ closeObs' = closeObsReturn(c)
          /\ UNCHANGED <<mu, closed, chClosed, panicked>>
     ELSE /\ closed' = TRUE
          /\ IF ~bufferChNil
             THEN /\ chClosed' = TRUE
                  /\ panicked' = chClosed   \* close of a closed channel panics
             ELSE UNCHANGED <<chClosed, panicked>>
          /\ mu' = c
          /\ pc' = [pc EXCEPT ![c] = "C_wait"]
          /\ UNCHANGED <<ret, closeReturned, closeObs>>
  /\ UNCHANGED <<storeVars, mwVars, cfgVars, dest, failed, writerErr, bufferCh, wg, handleOpen,
                 drain, entry, nextId, dropped, flushObs, afterClose>>

\* l.wg.Wait() returns when the counter is 0; then the writer is flushed, the
\* file / db is closed, the deferred Unlock runs and Close returns
CloseWait(c) ==
  /\ ~panicked
  /\ pc[c] = "C_wait"
  /\ bufferChNil \/ wg = 0
  /\ handleOpen' = FALSE
  /\ ret' = [ret EXCEPT ![c] = "nil"]
  /\ mu' = 0
  /\ pc' = [pc EXCEPT ![c] = "idle"]
  /\ closeReturned' = TRUE
  /\ closeObs' = closeObsReturn(c)
  /\ UNCHANGED <<storeVars, mwVars, cfgVars, outVars, closed, bufferCh, chClosed, wg, drain,
                 entry, nextId, dropped, flushObs, afterClose>>

\* ------------------------------------------------------------- Flush
\* a caller calls Flush(): if l.bufferCh == nil { return }; l.flushBuffer();
\* observe: the call is recorded in flushObs
FlushCall(c, observe) ==
  /\ ~panicked
  /\ pc[c] = "idle"
  /\ pc' = [pc EXCEPT ![c] = IF bufferChNil THEN "idle" ELSE "F_select"]
  /\ ret' = [ret EXCEPT ![c] = "none"]
  /\ flushObs' = IF observe /\ flushObs.who = 0 /\ ~bufferChNil
                 THEN [who |-> c, buf |-> bufferCh]
                 ELSE flushObs
  /\ UNCHANGED <<storeVars, mwVars, cfgVars, outVars, closed, mu, bufferCh, chClosed, wg,
                 handleOpen, drain, entry, nextId, dropped, closeObs,
                 closeReturned, afterClose>>

\* one pass of flushBuffer's select in the caller; on default Flush returns
FlushSelect(c) ==
  /\ ~panicked
  /\ pc[c] = "F_select"
  /\ IF flushRecvReady
     THEN /\ entry' = [entry EXCEPT ![c] = flushRecvEntry]
          /\ bufferCh' = flushRecvRest
          /\ pc' = [pc EXCEPT ![c] = "F_write"]
          /\ UNCHANGED flushObs
     ELSE /\ pc' = [pc EXCEPT ![c] = "idle"]
          /\ flushObs' = IF flushObs.who = c THEN NoFlushObs ELSE flushObs
          /\ UNCHANGED <<entry, bufferCh>>
  /\ UNCHANGED <<storeVars, mwVars, cfgVars, outVars, closed, mu, chClosed, wg, handleOpen, drain,
                 ret, nextId, dropped, closeObs, closeReturned, afterClose>>

\* l.writeEntry(entry) of flushBuffer in the caller
FlushWrite(c) ==
  /\ ~panicked
  /\ pc[c] = "F_write"
  /\ \E o \in writeOutcomes(entry[c]) :
       writeEntry(entry[c], o,
                  \/ drain.pc \in {"write", "flushWrite"}
                  \/ \E d \in Callers \ {c} : pc[d] = "F_write")
  /\ pc' = [pc EXCEPT ![c] = "F_select"]
  /\ entry' = [entry EXCEPT ![c] = NilEntry]
  /\ UNCHANGED <<storeVars, mwVars, cfgVars, obsVars, closed, mu, bufferCh, chClosed, wg,
                 handleOpen, drain, ret, nextId, dropped>>

\* ------------------------------------------------- Config.RWMutex
\* an RLock() that does not wait for the writer
canRLockAlways == TRUE

\* cfg.RLock() returns while no task holds the write lock
canRLock == cfgWriter = 0

\* h.config.Lock() returns while no task holds the lock in either mode
canLock == cfgWriter = 0 /\ cfgReaders = {}

\* ------------------------------------- the interceptor, one request
\* the status the downstream handler of a path answers with
HandlerStatus(p) == IF p = HealthPath THEN 200 ELSE 404

\* a read lock that is released only when the middleware function returns
readersUntilReturn(r) == cfgReaders

\* cfg.RUnlock(), executed before any branch calls c.Next()
readersAfterSnapshot(r) == cfgReaders \ {r}

\* a test that takes every request for enabled
alwaysEnabled(s) == TRUE

\* if !isEnabled { c.Next(); return }
isEnabled(s) == s.Enabled

\* a match that also takes a path that begins with the skip entry
pathHasPrefix(currentPath, sp) ==
  Len(sp) <= Len(currentPath) /\ SubSeq(currentPath, 1, Len(sp)) = sp

\* currentPath == sp
pathMatches(currentPath, sp) == currentPath = sp

\* the loop over skipPaths: some entry matches the path
isSkipped(skipPaths, currentPath) ==
  Len(skipPaths) > 0
    /\ \E i \in 1..Len(skipPaths) : pathMatches(currentPath, skipPaths[i])

\* the branch of the middleware function that calls c.Next()
branch(s, currentPath) ==
  IF ~isEnabled(s) THEN "disabled"
  ELSE IF isSkipped(s.SkipPaths, currentPath) THEN "skipped"
  ELSE "logged"

\* a template read from the shared Config when the entry is built
liveTemplate(r) == config.CustomFields

\* the template the entry is built from: the local customFields
entryTemplate(r) == snap[r].CustomFields

\* an entry that takes the template map itself for its custom fields
aliasedFields(r, tpl) == tpl

\* entry.CustomFields = make(map[string]interface{}, len(customFields)) if
\* the template has fields: a map of the entry's own; else it stays nil
copiedFields(r, tpl) == IF tpl # NilMap THEN EntryMap(r) ELSE NilMap

\* the Sink variables a call of logger.Write does not touch when it is made
sinkRest == <<kind, async, closed, mu, bufferCh, chClosed, wg, handleOpen,
              writerErr, dest, panicked, drain, entry, nextId, dropped, failed,
              flushObs, closeObs, closeReturned>>

\* all the variables of the Sink
sinkVars == <<sinkRest, pc, ret, afterClose>>

\* the request enters the middleware function: cfg.RLock() and
\* isEnabled := cfg.Enabled.  Requests are numbered in the order they enter.
ReqEnter(r, p) ==
  /\ ~panicked
  /\ rpc[r] = "new"
  /\ \A q \in 1..(r - 1) : rpc[q] # "new"
  /\ canRLock
  /\ cfgReaders' = cfgReaders \cup {r}
  /\ rpc' = [rpc EXCEPT ![r] = "read"]
  /\ path' = [path EXCEPT ![r] = p]
  /\ snap' = [snap EXCEPT ![r].Enabled = config.Enabled]
  /\ nread' = [nread EXCEPT ![r] = 1]
  /\ floor' = [floor EXCEPT ![r] = Len(cfgHist)]
  /\ UNCHANGED <<config, cfgWriter, heap, repo, mode, calls, status, ctx, gpc,
                 logCopy, warg, wcalls, rec, setCalls, admVars, cfgSeen,
                 cfgHist, snapVals, sent, sinkVars>>
  /\ UNCHANGED storeVars

\* skipPaths := cfg.SkipPaths, customFields := cfg.CustomFields,
\* async := cfg.Async, under the read lock: the reads between the first
\* and the last one (nread counts the locals assigned so far)
ReqRead(r) ==
  /\ ~panicked
  /\ rpc[r] = "read"
  /\ nread[r] = 1
  /\ LET fs == {ReadFields[i] : i \in 2..(Len(ReadFields) - 1)}
     IN snap' = [snap EXCEPT ![r] =
                   [f \in DOMAIN snap[r] |->
                      IF f \in fs THEN config[f] ELSE snap[r][f]]]
  /\ nread' = [nread EXCEPT ![r] = Len(ReadFields) - 1]
  /\ UNCHANGED <<memVars, rpc, path, mode, calls, status, ctx, gpc, logCopy,
                 warg, wcalls, rec, setCalls, admVars, histVars, sinkVars>>
  /\ UNCHANGED storeVars

\* timeFormat := cfg.TimeFormat; cfg.RUnlock(); then the enabled test and
\* the skip loop pick the branch, and the branch calls c.Next()
ReqSnapshotDone(r) ==
  /\ ~panicked
  /\ rpc[r] = "read"
  /\ nread[r] = Len(ReadFields) - 1
  /\ LET s == [snap[r] EXCEPT !.TimeFormat = config.TimeFormat]
     IN /\ snap' = [snap EXCEPT ![r] = s]
        /\ mode' = [mode EXCEPT ![r] = branch(s, path[r])]
        /\ snapVals' = [snapVals EXCEPT ![r] =
                          [s EXCEPT !.CustomFields = Content(heap, @)]]
  /\ nread' = [nread EXCEPT ![r] = Len(ReadFields)]
  /\ cfgReaders' = readersAfterSnapshot(r)
  /\ rpc' = [rpc EXCEPT ![r] = "handler"]
  /\ calls' = [calls EXCEPT ![r] = @ + 1]
  /\ UNCHANGED <<config, cfgWriter, heap, repo, path, status, ctx, gpc,
                 logCopy, warg, wcalls, rec, setCalls, admVars, cfgSeen,
                 cfgHist, floor, sent, sinkVars>>
  /\ UNCHANGED storeVars

\* logger.Write(...) is called by the goroutine of request r.  sink: the
\* logger is the Sink above and the goroutine is its caller r (the call is
\* WriteCall(r)); otherwise the logger is any Logger whose Write returns.
loggerWrite(r, sink) ==
  IF sink
  THEN /\ pc' = [pc EXCEPT ![r] = "W_lock"]
       /\ ret' = [ret EXCEPT ![r] = "none"]
       /\ afterClose' = [afterClose EXCEPT ![r] = closeReturned]
       /\ UNCHANGED sinkRest
  ELSE UNCHANGED <<sinkRest, pc, ret, afterClose>>

\* c.Next() returns, the handler having set the status.  On the disabled and
\* the skipped branch the middleware function returns.  Otherwise it builds
\* the entry (NewLogEntry, the copy of the template into a new map), stores
\* it in the context, and dispatches: go func() {...}() if async, else
\* logger.Write(entry).
ReqHandlerReturn(r, sink) ==
  /\ ~panicked
  /\ rpc[r] = "handler"
  /\ status' = [status EXCEPT ![r] = HandlerStatus(path[r])]
  /\ IF mode[r] # "logged"
     THEN /\ rpc' = [rpc EXCEPT ![r] = "done"]
          /\ UNCHANGED <<heap, ctx, gpc, warg, wcalls, sent, sinkRest, pc, ret,
                         afterClose>>
     ELSE LET tpl == entryTemplate(r)
              ref == copiedFields(r, tpl)
              h == IF tpl # NilMap
                   THEN [heap EXCEPT ![EntryMap(r)] = heap[tpl]]
                   ELSE heap
              e == [StatusCode |-> HandlerStatus(path[r]),
                    TimeFormat |-> snap[r].TimeFormat,
                    CustomFields |-> ref]
          IN /\ heap' = h
             /\ ctx' = [ctx EXCEPT ![r] = <<e>>]
             /\ sent' = [sent EXCEPT ![r] =
                           <<[async |-> snap[r].Async,
                              TimeFormat |-> e.TimeFormat,
                              CustomFields |-> Content(h, ref),
                              overtaken |-> floor[r] < Len(cfgHist)]>>]
             /\ IF snap[r].Async
                THEN /\ gpc' = [gpc EXCEPT ![r] = "spawned"]
                     /\ rpc' = [rpc EXCEPT ![r] = "done"]
                     /\ UNCHANGED <<warg, wcalls, sinkRest, pc, ret,
                                    afterClose>>
                ELSE /\ warg' = [warg EXCEPT ![r] = "entry"]
                     /\ wcalls' = [wcalls EXCEPT ![r] = @ + 1]
                     /\ rpc' = [rpc EXCEPT ![r] = IF sink THEN "write"
                                                  ELSE "done"]
                     /\ loggerWrite(r, sink)
                     /\ UNCHANGED gpc
  /\ UNCHANGED <<config, cfgReaders, cfgWriter, repo, path, snap, nread, mode,
                 calls, logCopy, rec, setCalls, admVars, cfgSeen, cfgHist,
                 floor, snapVals>>
  /\ UNCHANGED storeVars

\* the goroutine of the async dispatch: logCopy := *entry (the struct is
\* copied, its CustomFields field still refers to the entry's map) and
\* logger.Write(&logCopy)
GoWrite(r, sink) ==
  /\ ~panicked
  /\ gpc[r] = "spawned"
  /\ logCopy' = [logCopy EXCEPT ![r] = ctx[r]]
  /\ warg' = [warg EXCEPT ![r] = "copy"]
  /\ wcalls' = [wcalls EXCEPT ![r] = @ + 1]
  /\ gpc' = [gpc EXCEPT ![r] = IF sink THEN "write" ELSE "done"]
  /\ loggerWrite(r, sink)
  /\ UNCHANGED <<memVars, rpc, path, snap, nread, mode, calls, status, ctx,
                 rec, setCalls, admVars, histVars>>
  /\ UNCHANGED storeVars

\* logger.Write of the Sink has returned to the request task (sync dispatch);
\* the error is discarded and the middleware function returns
ReqWriteReturn(r) ==
  /\ ~panicked
  /\ rpc[r] = "write"
  /\ pc[r] = "idle"
  /\ rpc' = [rpc EXCEPT ![r] = "done"]
  /\ UNCHANGED <<memVars, path, snap, nread, mode, calls, status, ctx, gpc,
                 logCopy, warg, wcalls, rec, setCalls, admVars, histVars,
                 sinkRest, pc, ret, afterClose>>
  /\ UNCHANGED storeVars

\* logger.Write of the Sink has returned to the dispatch goroutine, which ends
GoWriteReturn(r) ==
  /\ ~panicked
  /\ gpc[r] = "write"
  /\ pc[r] = "idle"
  /\ gpc' = [gpc EXCEPT ![r] = "done"]
  /\ UNCHANGED <<memVars, rpc, path, snap, nread, mode, calls, status, ctx,
                 logCopy, warg, wcalls, rec, setCalls, admVars, histVars,
                 sinkRest, pc, ret, afterClose>>
  /\ UNCHANGED storeVars

\* GetLogEntry(c): the entry stored in the context, nil if there is none
GetLogEntry(r) == ctx[r]

\* SetLogField(c, key, value), called by code that holds the context of
\* request r (its handler, a middleware around the interceptor after its
\* c.Next() returned, a goroutine of the handler): nothing if there is no
\* entry; else the entry's map is made if nil and the pair is stored
SetLogField(r, key, value) ==
  /\ ~panicked
  /\ rpc[r] \in {"handler", "write", "done"}
  /\ setCalls[r] < MaxSetField
  /\ setCalls' = [setCalls EXCEPT ![r] = @ + 1]
  /\ IF GetLogEntry(r) = <<>>
     THEN UNCHANGED <<heap, ctx>>
     ELSE LET e == GetLogEntry(r)[1]
              ref == IF e.CustomFields = NilMap THEN FieldMap(r)
                     ELSE e.CustomFields
          IN /\ heap' = [heap EXCEPT ![ref] = Put(Content(heap, e.CustomFields),
                                                  key, value)]
             /\ ctx' = [ctx EXCEPT ![r] = <<[e EXCEPT !.CustomFields = ref]>>]
  /\ UNCHANGED <<config, cfgReaders, cfgWriter, repo, rpc, path, snap, nread,
                 mode, calls, status, gpc, logCopy, warg, wcalls, rec, admVars,
                 histVars, sinkRest, pc, ret, afterClose>>
  /\ UNCHANGED storeVars

\* A Logger that was handed the entry serializes it when it persists it
\* (json.Marshal(entry) in writeEntry / insertEntry): it reads the struct
\* the pointer refers to and, through it, the map.
LoggerSerialize(r) ==
  /\ ~panicked
  /\ warg[r] # "none"
  /\ rec[r] = <<>>
  /\ LET e == IF warg[r] = "entry" THEN ctx[r][1] ELSE logCopy[r][1]
     IN rec' = [rec EXCEPT ![r] = <<Content(heap, e.CustomFields)>>]
  /\ UNCHANGED <<memVars, rpc, path, snap, nread, mode, calls, status, ctx,
                 gpc, logCopy, warg, wcalls, setCalls, admVars, histVars,
                 sinkRest, pc, ret, afterClose>>
  /\ UNCHANGED storeVars

\* ------------------------------------ UpdateConfig and ResetConfig
\* cfg.Enabled = *req.Enabled etc.: the fields present in the request
\* replace those of the loaded row
applyRequest(row, req) ==
  [row EXCEPT
     !.Enabled = IF req.Enabled # <<>> THEN req.Enabled[1] ELSE @,
     !.SkipPaths = IF req.SkipPaths # <<>>
                   THEN JoinSkipPaths(req.SkipPaths[1]) ELSE @,
     !.CustomFields = IF req.CustomFields # <<>>
                      THEN MarshalCustomFields(req.CustomFields[1]) ELSE @,
     !.AsyncMode = IF req.Async # <<>> THEN req.Async[1] ELSE @,
     !.BufferSize = IF req.BufferSize # <<>> THEN req.BufferSize[1] ELSE @]

\* the fields the call of a assigns under the write lock, in order
assignedFields(a) ==
  IF areq[a].op = "reset" THEN ResetFields ELSE UpdateFields

\* the id of the map a ParseCustomFields call makes now
newTemplateMap ==
  CHOOSE id \in TemplateMaps :
    heap[id] = {} /\ \A j \in 1..(id - 1) : heap[j] # {}

\* an assignment that leaves the field as it is
staleValue(a, f) == config[f]

\* the right-hand side of the assignment to h.config.<f>: ResetConfig takes
\* it from DefaultConfig(), UpdateConfig from the row it saved
newValue(a, f) ==
  IF areq[a].op = "reset" THEN DefaultConfig[f]
  ELSE CASE f = "Enabled" -> arow[a].Enabled
         [] f = "SkipPaths" -> ParseSkipPaths(arow[a].SkipPaths)
         [] f = "CustomFields" ->
              ParseCustomFields(arow[a].CustomFields, newTemplateMap)
         [] f = "Async" -> arow[a].AsyncMode
         [] f = "BufferSize" -> arow[a].BufferSize

\* the heap after the right-hand side was evaluated
heapAfter(a, f) ==
  IF areq[a].op = "update" /\ f = "CustomFields"
       /\ arow[a].CustomFields # {}
  THEN [heap EXCEPT ![newTemplateMap] = arow[a].CustomFields]
  ELSE heap

\* what the call of a is to install, the custom fields by content
installs(a) ==
  IF areq[a].op = "reset"
  THEN [Enabled |-> DefaultConfig.Enabled,
        SkipPaths |-> DefaultConfig.SkipPaths,
        CustomFields |-> {},
        Async |-> DefaultConfig.Async]
  ELSE [Enabled |-> arow[a].Enabled,
        SkipPaths |-> ParseSkipPaths(arow[a].SkipPaths),
        CustomFields |-> arow[a].CustomFields,
        Async |-> arow[a].AsyncMode]

\* UpdateConfig is called with body req: ShouldBindJSON, then
\* h.repo.LoadConfig(), which fails (response 500) or yields the row
UpdateConfigLoad(a, req) ==
  /\ ~panicked
  /\ apc[a] = "idle"
  /\ \A b \in 1..(a - 1) : apc[b] # "idle"
  /\ ops < MaxUpdates
  /\ ops' = ops + 1
  /\ \/ /\ aresp' = [aresp EXCEPT ![a] = 500]
        /\ UNCHANGED <<apc, areq, arow>>
     \/ /\ areq' = [areq EXCEPT ![a] = req]
        /\ arow' = [arow EXCEPT ![a] = repo]
        /\ apc' = [apc EXCEPT ![a] = "loaded"]
        /\ aresp' = [aresp EXCEPT ![a] = 0]
  /\ UNCHANGED <<memVars, reqVars, aidx, histVars, sinkVars>>
  /\ UNCHANGED storeVars

\* a handler that answers 500 on SaveConfig's error and goes on to the
\* assignments
onSaveErrorGoOn == "saved"

\* if err := h.repo.SaveConfig(cfg); err != nil { c.JSON(500, ...); return }
onSaveError == "idle"

\* the request is applied to the row and h.repo.SaveConfig(cfg) runs its
\* transaction, which fails (response 500) or replaces the stored row
UpdateConfigSave(a) ==
  /\ ~panicked
  /\ apc[a] = "loaded"
  /\ LET row == applyRequest(arow[a], areq[a])
     IN \/ /\ aresp' = [aresp EXCEPT ![a] = 500]
           /\ apc' = [apc EXCEPT ![a] = onSaveError]
           /\ areq' = [areq EXCEPT ![a] = ResetRequest]
           /\ arow' = [arow EXCEPT ![a] = getDefaultConfig]
           /\ UNCHANGED repo
        \/ /\ repo' = row
           /\ arow' = [arow EXCEPT ![a] = row]
           /\ apc' = [apc EXCEPT ![a] = "saved"]
           /\ UNCHANGED <<areq, aresp>>
  /\ UNCHANGED <<config, cfgReaders, cfgWriter, heap, reqVars, aidx, ops,
                 histVars, sinkVars>>
  /\ UNCHANGED storeVars

\* ResetConfig is called: h.repo.ResetConfig() saves getDefaultConfig(),
\* which fails (response 500) or replaces the stored row
ResetConfigSave(a) ==
  /\ ~panicked
  /\ apc[a] = "idle"
  /\ \A b \in 1..(a - 1) : apc[b] # "idle"
  /\ ops < MaxUpdates
  /\ ops' = ops + 1
  /\ \/ /\ aresp' = [aresp EXCEPT ![a] = 500]
        /\ UNCHANGED <<apc, areq, arow, repo>>
     \/ /\ areq' = [areq EXCEPT ![a] = ResetRequest]
        /\ repo' = getDefaultConfig
        /\ arow' = [arow EXCEPT ![a] = getDefaultConfig]
        /\ apc' = [apc EXCEPT ![a] = "saved"]
        /\ aresp' = [aresp EXCEPT ![a] = 0]
  /\ UNCHANGED <<config, cfgReaders, cfgWriter, heap, reqVars, aidx, histVars,
                 sinkVars>>
  /\ UNCHANGED storeVars

\* h.config.Lock() and the first assignment (h.config.Enabled = ...)
ConfigLock(a) ==
  /\ ~panicked
  /\ apc[a] = "saved"
  /\ canLock
  /\ cfgWriter' = a
  /\ LET f == assignedFields(a)[1]
     IN /\ config' = [config EXCEPT ![f] = newValue(a, f)]
        /\ heap' = heapAfter(a, f)
  /\ aidx' = [aidx EXCEPT ![a] = 1]
  /\ apc' = [apc EXCEPT ![a] = "assign"]
  /\ UNCHANGED <<cfgReaders, repo, reqVars, areq, arow, aresp, ops, histVars,
                 sinkVars>>
  /\ UNCHANGED storeVars

\* the assignments under the write lock between the first and the last one
\* (aidx counts the fields assigned so far)
ConfigAssign(a) ==
  /\ ~panicked
  /\ apc[a] = "assign"
  /\ aidx[a] = 1
  /\ LET fs == {assignedFields(a)[i] : i \in 2..(Len(assignedFields(a)) - 1)}
     IN /\ config' = [f \in DOMAIN config |->
                        IF f \in fs THEN newValue(a, f) ELSE config[f]]
        /\ heap' = heapAfter(a, "CustomFields")
  /\ aidx' = [aidx EXCEPT ![a] = Len(assignedFields(a)) - 1]
  /\ UNCHANGED <<cfgReaders, cfgWriter, repo, reqVars, apc, areq, arow, aresp,
                 ops, histVars, sinkVars>>
  /\ UNCHANGED storeVars

\* the last assignment (h.config.BufferSize = ...), h.config.Unlock() and
\* the response 200
ConfigUnlock(a) ==
  /\ ~panicked
  /\ apc[a] = "assign"
  /\ aidx[a] + 1 = Len(assignedFields(a))
  /\ LET f == assignedFields(a)[aidx[a] + 1]
     IN /\ config' = [config EXCEPT ![f] = newValue(a, f)]
        /\ heap' = heapAfter(a, f)
  /\ cfgWriter' = 0
  /\ aidx' = [aidx EXCEPT ![a] = 0]
  /\ apc' = [apc EXCEPT ![a] = "idle"]
  /\ aresp' = [aresp EXCEPT ![a] = 200]
  /\ areq' = [areq EXCEPT ![a] = ResetRequest]
  /\ arow' = [arow EXCEPT ![a] = getDefaultConfig]
  /\ cfgSeen' = cfgSeen \cup {Snapshot(config')}
  /\ cfgHist' = Append(cfgHist, installs(a))
  /\ UNCHANGED <<cfgReaders, repo, reqVars, ops, floor, snapVals, sent,
                 sinkVars>>
  /\ UNCHANGED storeVars

\* ------------------------------------------------------- specification
DrainStep == DrainRecv \/ DrainWrite \/ DrainFlushSelect \/ DrainFlushWrite

\* the steps of a caller inside a call it has started
CallerStep(c) ==
  \/ WriteBody(c)
  \/ CloseBody(c) \/ CloseWait(c)
  \/ FlushSelect(c) \/ FlushWrite(c)

Next ==
  \/ DrainRecv
  \/ DrainWrite
  \/ DrainFlushSelect
  \/ DrainFlushWrite
  \/ \E c \in Callers : WriteCall(c)
  \/ \E c \in Callers : WriteBody(c)
  \/ \E c \in Callers : CloseCall(c, FALSE)
  \/ \E c \in Callers : CloseBody(c)
  \/ \E c \in Callers : CloseWait(c)
  \/ \E c \in Callers : FlushCall(c, FALSE)
  \/ \E c \in Callers : FlushSelect(c)
  \/ \E c \in Callers : FlushWrite(c)

Spec == Init /\ [][Next]_vars

\* the same program with the Close and Flush calls recorded in the history
\* variables closeObs and flushObs
ObsNext ==
  \/ DrainRecv
  \/ DrainWrite
  \/ DrainFlushSelect
  \/ DrainFlushWrite
  \/ \E c \in Callers : WriteCall(c)
  \/ \E c \in Callers : WriteBody(c)
  \/ \E c \in Callers : CloseCall(c, TRUE)
  \/ \E c \in Callers : CloseBody(c)
  \/ \E c \in Callers : CloseWait(c)
  \/ \E c \in Callers : FlushCall(c, TRUE)
  \/ \E c \in Callers : FlushSelect(c)
  \/ \E c \in Callers : FlushWrite(c)

ObsSpec == Init /\ [][ObsNext]_vars

\* The Go scheduler runs every runnable goroutine and the destination
\* answers every write: the drain goroutine and every caller inside a call
\* take their next step when it stays possible.  sync.Mutex hands the lock
\* to a goroutine that keeps waiting for it (starvation mode), so a Lock()
\* that is possible again and again is taken.
FairSpec ==
  /\ Init
  /\ [][ObsNext]_vars
  /\ WF_vars(DrainStep)
  /\ \A c \in Callers : WF_vars(CallerStep(c))
  /\ \A c \in Callers : SF_vars(WriteBody(c)) /\ SF_vars(CloseBody(c))

TypeOK ==
  /\ kind \in {"file", "db"}
  /\ async \in BOOLEAN
  /\ mu \in {0} \cup Callers
  /\ Len(bufferCh) <= BufferSize
  /\ wg \in {0, 1}
  /\ nextId \in 1..(MaxWrites + 1)

\* ---------------------------- specifications of the request path
\* the process as admin.Start builds it: the Sink is NewDBLogger(..., true,
\* ...), the Config holds the stored default row and a time format
MwInit ==
  /\ NewLogger("db", TRUE)
  /\ \E tf \in TimeFormats : Startup(getDefaultConfig, tf)
  /\ OpenStore(EmptyStore)

\* the admin page sends one configuration change at a time
OneChangeAtATime == \A a \in Admins : apc[a] = "idle"

\* The interceptor with the shared Config and the admin calls.  The logger
\* is a Logger (interface of logger.go) whose Write returns, and the
\* application does not call SetLogField.
CfgNext ==
  \/ \E r \in Requests : \E p \in Paths : ReqEnter(r, p)
  \/ \E r \in Requests : ReqRead(r)
  \/ \E r \in Requests : ReqSnapshotDone(r)
  \/ \E r \in Requests : ReqHandlerReturn(r, FALSE)
  \/ \E r \in Requests : GoWrite(r, FALSE)
  \/ \E a \in Admins : \E req \in UpdateRequests :
       OneChangeAtATime /\ UpdateConfigLoad(a, req)
  \/ \E a \in Admins : UpdateConfigSave(a)
  \/ \E a \in Admins : OneChangeAtATime /\ ResetConfigSave(a)
  \/ \E a \in Admins : ConfigLock(a)
  \/ \E a \in Admins : ConfigAssign(a)
  \/ \E a \in Admins : ConfigUnlock(a)

CfgSpec == MwInit /\ [][CfgNext]_vars

\* The same with an application that calls SetLogField and a Logger that
\* serializes the entries it was handed.
MwNext ==
  \/ \E r \in Requests : \E p \in Paths : ReqEnter(r, p)
  \/ \E r \in Requests : ReqRead(r)
  \/ \E r \in Requests : ReqSnapshotDone(r)
  \/ \E r \in Requests : ReqHandlerReturn(r, FALSE)
  \/ \E r \in Requests : GoWrite(r, FALSE)
  \/ \E r \in Requests : SetLogField(r, "user_id", "12345")
  \/ \E r \in Requests : LoggerSerialize(r)
  \/ \E a \in Admins : \E req \in UpdateRequests :
       OneChangeAtATime /\ UpdateConfigLoad(a, req)
  \/ \E a \in Admins : UpdateConfigSave(a)
  \/ \E a \in Admins : OneChangeAtATime /\ ResetConfigSave(a)
  \/ \E a \in Admins : ConfigLock(a)
  \/ \E a \in Admins : ConfigAssign(a)
  \/ \E a \in Admins : ConfigUnlock(a)

MwSpec == MwInit /\ [][MwNext]_vars

\* The interceptor in front of the Sink: the logger is a Sink of either type
\* and mode, the Config holds a stored row and is not changed.  The task of
\* request r, and the goroutine of its async dispatch, is caller r of the
\* Sink; a caller that serves no request may call Close().
AppInit ==
  /\ \E k \in {"file", "db"} : \E a \in BOOLEAN : NewLogger(k, a)
  /\ \E row \in StartRows : \E tf \in TimeFormats : Startup(row, tf)
  /\ OpenStore(EmptyStore)

\* the requests whose task is a caller of the Sink
Served == Requests \cap Callers

AppNext ==
  \/ \E r \in Served : \E p \in Paths : pc[r] = "idle" /\ ReqEnter(r, p)
  \/ \E r \in Served : ReqRead(r)
  \/ \E r \in Served : ReqSnapshotDone(r)
  \/ \E r \in Served : ReqHandlerReturn(r, TRUE)
  \/ \E r \in Served : GoWrite(r, TRUE)
  \/ \E r \in Served : ReqWriteReturn(r)
  \/ \E r \in Served : GoWriteReturn(r)
  \/ \E c \in Callers : WriteBody(c)
  \/ DrainRecv
  \/ DrainWrite
  \/ DrainFlushSelect
  \/ DrainFlushWrite
  \/ \E c \in Callers :
       (c \in Served => rpc[c] = "new") /\ CloseCall(c, FALSE)
  \/ \E c \in Callers : CloseBody(c)
  \/ \E c \in Callers : CloseWait(c)

AppSpec == AppInit /\ [][AppNext]_vars

\* ----------------------------------- specification of the log store
\* The calls of the admin handlers on the log store, one at a time, with
\* rows being inserted before them and between the queries of GetStats.
StoreInit ==
  /\ NewLogger("db", TRUE)
  /\ Startup(getDefaultConfig, DefaultTimeFormat)
  /\ \E st \in SampleStores : OpenStore(st)

StoreNext ==
  \/ /\ qres = NoResult
     /\ \E offset \in {0, 1} : \E limit \in {0, 1, MaxSerial} :
          \E conditions \in ConditionMaps :
            QueryLogsCall(offset, limit, conditions)
     /\ UNCHANGED <<sinkVars, mwVars>>
  \/ /\ qres = NoResult
     /\ \E conditions \in ConditionMaps : CountLogsCall(conditions)
     /\ UNCHANGED <<sinkVars, mwVars>>
  \/ \E days \in {1, 6, 7} :
       DeleteOldLogs(days) /\ UNCHANGED <<sinkVars, mwVars>>
  \/ GetStatsCall /\ UNCHANGED <<sinkVars, mwVars>>
  \/ GetStatsQuery /\ UNCHANGED <<sinkVars, mwVars>>
  \/ Respond /\ UNCHANGED <<sinkVars, mwVars>>
  \/ InsertRow /\ UNCHANGED <<sinkVars, mwVars>>

StoreSpec == StoreInit /\ [][StoreNext]_vars

\* -------------------------------------------------- derived state
\* the drain goroutine, next to the callers 1..NumCallers
DrainTask == 0

\* the tasks that are inside writeEntry / insertEntry
Writers ==
  (IF drain.pc \in {"write", "flushWrite"} THEN {DrainTask} ELSE {})
    \cup {c \in Callers : pc[c] = "F_write"}

\* the entries that were received from bufferCh and are not yet written
Held ==
  (IF drain.pc \in {"write", "flushWrite"} THEN {drain.entry} ELSE {})
    \cup {entry[c] : c \in {d \in Callers : pc[d] = "F_write"}}

\* e is in the destination, or its write was answered with an error
Settled(e) == e \in Range(dest) \/ e \in failed

\* =================================================================
\* Claims
\* =================================================================

\* C1: on an async Sink, a Close() call returns, and at that moment every
\* entry that was enqueued before Close() was called is in the destination
\* exactly once (unless the encoder or the destination refused it).
C1_EnqueuedPersistedAtClose ==
  (async /\ closeObs.who # 0 /\ ~closeObs.done
     /\ (1..(closeObs.mark - 1)) \ dropped # {})
    ~> ( /\ closeObs.done
         /\ \A e \in (1..(closeObs.mark - 1)) \ dropped :
              Count(dest, e) = 1 \/ e \in failed )

\* C2: on an async Sink, once Close() has closed the staging channel the
\* drain task exits, the destination handle is released and Close() returns.
C2_CloseTerminates ==
  \A c \in Callers :
    (async /\ pc[c] = "C_wait")
      ~> (pc[c] = "idle" /\ drain.pc = "done" /\ ~handleOpen)

\* C3: on a Sink built with async=false every entry Write has accepted and
\* returned from is already in the destination (or was refused by it with an
\* error), and none is left in the staging channel.
C3_SyncWriteInline ==
  ~async => /\ bufferCh = <<>>
            /\ \A e \in 1..(nextId - 1) : Settled(e)

\* C4: for every Sink, once closed is true no step adds an entry to the
\* staging channel, and when the Close() call that closed the Sink returns,
\* every entry that was staged when it was called is in the destination (or
\* was refused by it).
C4_ClosedAcceptsNothingAndDrains ==
  [][ /\ closed => Range(bufferCh') \subseteq Range(bufferCh)
      /\ \A c \in Callers :
           (pc[c] = "C_wait" /\ pc'[c] = "idle" /\ closeObs.who = c
              /\ ~closeObs.done)
             => \A e \in Range(closeObs.buf) :
                  e \in Range(dest') \/ e \in failed'
    ]_vars

\* C5: a Write call that started after some Close() call had returned ends
\* with the "logger is closed" error, and none of its steps changes the
\* staging channel or the destination or panics.
C5_WriteAfterCloseRejected ==
  [][ \A c \in Callers :
        (afterClose[c] /\ pc[c] = "W_lock" /\ pc'[c] # pc[c])
          => /\ bufferCh' = bufferCh
             /\ dest' = dest
             /\ ~panicked'
             /\ pc'[c] = "idle" => ret'[c] = "errClosed"
    ]_vars

\* C5 witness: every caller has had a Write, started after a Close() had
\* returned, rejected with the closed error
C5_Witness ==
  \A c \in Callers :
    pc[c] = "idle" /\ afterClose[c] /\ ret[c] = "errClosed"

C7_FlushPersistsStaged ==
  [][ \A c \in Callers :
        (async /\ pc[c] = "F_select" /\ pc'[c] = "idle" /\ flushObs.who = c)
          => \A e \in Range(flushObs.buf) :
               e \in Range(dest') \/ e \in failed'
    ]_vars

\* C8: on an async Sink no task other than the drain task executes
\* writeEntry / insertEntry, and no two tasks execute it at the same time.
C8_DrainIsSoleWriter ==
  async => Writers \subseteq {DrainTask}

\* C9: the destination holds the entries in the order Write enqueued them
\* (entries are numbered in that order).
C9_PersistedInEnqueueOrder ==
  async =>
    \A i, j \in 1..Len(dest) :
      (i < j /\ dest[i] # NilEntry /\ dest[j] # NilEntry) => dest[i] < dest[j]

\* C10: on an async Sink a Write call is never kept waiting by the drain
\* task: no Write waits for the mutex while its holder is inside Close()
\* waiting for the drain task to exit.
C10_WriteNeverWaitsForDrain ==
  async =>
    \A c \in Callers :
      pc[c] = "W_lock" => ~(mu # 0 /\ pc[mu] = "C_wait" /\ wg > 0)

\* C11: Close() is idempotent: a Close() call made on a Sink that is already
\* closed returns nil (and closes nothing again), whether it comes after the
\* first Close() or while the first Close() is still running.
C11_LaterCloseReturnsNil ==
  \A c \in Callers :
    (closed /\ pc[c] = "C_lock") ~> (pc[c] = "idle" /\ ret[c] = "nil")

\* C12: a Write that runs concurrently with Close() either enqueues its entry
\* before the channel is closed or returns the closed error, it never panics
\* on a closed channel and never writes to the destination itself; and the
\* entries that were enqueued are drained: when a Close() call returns, each
\* of them is in the destination (or was refused by it).
C12_WriteRacingCloseIsSafe ==
  [][ /\ \A c \in Callers :
           (pc[c] = "W_lock" /\ pc'[c] = "idle")
             => /\ ~panicked'
                /\ dest' = dest
                /\ \/ /\ ret'[c] = "errClosed"
                      /\ closed
                      /\ bufferCh' = bufferCh
                   \/ /\ ret'[c] = "nil"
                      /\ ~chClosed
                      /\ \/ bufferCh' = Append(bufferCh, nextId)
                         \/ dropped' = dropped \cup {nextId}
      /\ \A c \in Callers :
           (pc[c] \in {"C_lock", "C_wait"} /\ pc'[c] = "idle")
             => \A e \in (1..(nextId - 1)) \ dropped : Settled(e)'
    ]_vars

\* C13: a request whose snapshot was taken while Enabled was false has the
\* downstream handler called once and makes no Write call on the logger: no
\* dispatch goroutine is started for it and no entry is built.
C13_DisabledLogsNothing ==
  \A r \in Requests :
    (nread[r] = Len(ReadFields) /\ ~snapVals[r].Enabled)
      => /\ calls[r] = 1
         /\ wcalls[r] = 0
         /\ gpc[r] = "none"
         /\ warg[r] = "none"
         /\ ctx[r] = <<>>

\* every request ran to its end on a snapshot taken while Enabled was false
C13_Witness ==
  \A r \in Requests :
    /\ rpc[r] = "done"
    /\ ~snapVals[r].Enabled
    /\ status[r] = HandlerStatus(path[r])
    /\ wcalls[r] = 0

\* C14: with Enabled true in its snapshot, a request makes no Write call on
\* the logger if and only if its path is equal to an element of the skip set
\* of the snapshot; otherwise, once its dispatch has run, it has made exactly
\* one Write call, also when its path is a proper prefix or an extension of
\* a skip entry.
C14_SkipIsExactMatch ==
  \A r \in Requests :
    (rpc[r] = "done" /\ gpc[r] # "spawned" /\ snapVals[r].Enabled)
      => wcalls[r] = IF path[r] \in Range(snapVals[r].SkipPaths) THEN 0 ELSE 1

\* one request with path "/heal" was logged under the skip entry "/health",
\* and one with path "/health" was logged under the skip entry "/heal"
C14_Witness ==
  \E r, q \in Requests :
    /\ rpc[r] = "done" /\ rpc[q] = "done"
    /\ snapVals[r].Enabled /\ snapVals[q].Enabled
    /\ path[r] = HealPath /\ HealthPath \in Range(snapVals[r].SkipPaths)
    /\ wcalls[r] = 1
    /\ path[q] = HealthPath /\ snapVals[q].SkipPaths = <<HealPath>>
    /\ wcalls[q] = 1

\* C15: a request task does not hold the read lock of the config while the
\* downstream handler runs (nor after it): the only holders of the read lock
\* are requests that are still reading their snapshot, so with every
\* in-flight request inside its handler the lock is free of readers and
\* UpdateConfig / ResetConfig can take the write lock.
C15_NoReadLockAcrossHandler ==
  /\ cfgReaders \subseteq {r \in Requests : rpc[r] = "read"}
  /\ \A a \in Admins :
       (apc[a] = "saved" /\ cfgWriter = 0
          /\ \A r \in Requests : rpc[r] # "read") => ENABLED ConfigLock(a)

\* an admin call holds the write lock while every request is inside its
\* handler, the handlers not having returned
C15_Witness ==
  /\ cfgWriter \in Admins
  /\ \A r \in Requests : rpc[r] = "handler"

\* C16: the five values of a request's snapshot (Enabled, SkipPaths,
\* CustomFields, Async, TimeFormat) are those of one version of the config:
\* the one the process started with or the one some UpdateConfig /
\* ResetConfig call left when it released the write lock, never a mix.
C16_SnapshotNeverMixed ==
  \A r \in Requests : nread[r] = Len(ReadFields) => snap[r] \in cfgSeen

\* two requests took their snapshots of two versions that differ in more
\* than one field, and the config has changed again since
C16_Witness ==
  \E r, q \in Requests :
    /\ nread[r] = Len(ReadFields) /\ nread[q] = Len(ReadFields)
    /\ snap[r].SkipPaths # snap[q].SkipPaths
    /\ snap[r].Async # snap[q].Async
    /\ Snapshot(config) \notin {snap[r], snap[q]}

\* C17: a request completes on the values of its snapshot, whatever
\* UpdateConfig / ResetConfig do to the config while its handler runs: the
\* branch it takes (disabled, skipped, logged) is the one the snapshot and its
\* path give, and the entry it dispatches carries the custom fields of the
\* snapshot, is time-stamped in the snapshot's format and is dispatched
\* through a goroutine exactly if the snapshot's Async is true.
C17_InFlightUsesSnapshot ==
  \A r \in Requests :
    /\ nread[r] = Len(ReadFields)
         => mode[r] = IF ~snapVals[r].Enabled THEN "disabled"
                      ELSE IF path[r] \in Range(snapVals[r].SkipPaths)
                      THEN "skipped" ELSE "logged"
    /\ rpc[r] = "done" => (sent[r] # <<>>) = (mode[r] = "logged")
    /\ sent[r] # <<>>
         => /\ sent[r][1].CustomFields = snapVals[r].CustomFields
            /\ sent[r][1].TimeFormat = snapVals[r].TimeFormat
            /\ sent[r][1].async = snapVals[r].Async
            /\ IF snapVals[r].Async
               THEN gpc[r] # "none" /\ warg[r] \in {"none", "copy"}
               ELSE gpc[r] = "none" /\ warg[r] = "entry"

\* a request dispatched its entry after an admin call had answered that
\* locked the config after the request's snapshot, the config holding another
\* skip set, other custom fields, another time format and another dispatch
\* mode than those of its snapshot; under the new skip set it would have
\* been skipped
C17_Witness ==
  \E r \in Requests :
    /\ rpc[r] = "done" /\ sent[r] # <<>>
    /\ path[r] \in Range(config.SkipPaths)
    /\ Content(heap, config.CustomFields) # snapVals[r].CustomFields
    /\ config.TimeFormat # snapVals[r].TimeFormat
    /\ config.Async # snapVals[r].Async
    /\ sent[r][1].overtaken

\* C18: a request that enters the interceptor after an UpdateConfig or
\* ResetConfig call has answered with success takes a snapshot whose
\* Enabled, SkipPaths, CustomFields and Async are those that call (or a
\* later call that has locked the config since) was to install.
C18_UpdateVisibleToLaterRequests ==
  \A r \in Requests :
    nread[r] = Len(ReadFields)
      => \E v \in floor[r]..Len(cfgHist) :
           [f \in DOMAIN cfgHist[v] |-> snapVals[r][f]] = cfgHist[v]

\* a request entered after an admin call had answered, no other call having
\* locked the config since, and took the values that call installed, which
\* differ from those the config held before it
C18_Witness ==
  \E r \in Requests :
    /\ nread[r] = Len(ReadFields)
    /\ floor[r] > 1
    /\ floor[r] = Len(cfgHist)
    /\ [f \in DOMAIN cfgHist[floor[r]] |-> snapVals[r][f]] = cfgHist[floor[r]]
    /\ cfgHist[floor[r]] # cfgHist[floor[r] - 1]

\* C19: nothing in the logging path changes the outcome of a request,
\* whatever the Sink does (Write returns nil or the closed error, drops on a
\* full buffer, persistence fails in the drain task, Close() is in progress):
\* the process does not crash while a request is being served or its entry
\* is on its way, the handler is called exactly once, and the status of a
\* finished request is the one its handler set.
C19_LoggingNeverAltersOutcome ==
  \A r \in Requests :
    /\ rpc[r] # "new" => ~panicked
    /\ rpc[r] \in {"handler", "write", "done"} => calls[r] = 1
    /\ rpc[r] = "done" => status[r] = HandlerStatus(path[r])

\* C20: in async dispatch the logger is handed a copy that later SetLogField
\* calls cannot reach: the custom fields the logger serializes are those the
\* entry had when the interceptor dispatched it, for every interleaving of
\* SetLogField with the dispatch goroutine and the logger.
C20_AsyncCopyIsolated ==
  \A r \in Requests :
    (rec[r] # <<>> /\ sent[r][1].async)
      => rec[r][1] = sent[r][1].CustomFields

\* C21: code of the same request can add fields before the dispatch: when
\* SetLogField(c, k, v) is called while the handler of the request runs
\* (inside c.Next()), GetLogEntry finds the in-flight entry, and after the
\* call that entry holds the custom field k = v.
C21_HandlerCanAddField ==
  [][ \A r \in Requests :
        (rpc[r] = "handler" /\ mode[r] = "logged"
           /\ setCalls'[r] = setCalls[r] + 1)
          => /\ GetLogEntry(r) # <<>>
             /\ <<"user_id", "12345">>
                  \in Content(heap', ctx'[r][1].CustomFields)
    ]_vars

\* ------------------------------------------------------------ C22
\* C22: CountLogs uses the predicate of QueryLogs: whenever CountLogs has
\* returned for a conditions map, its result is the number of rows that
\* QueryLogs returns for the same map on the same table with offset 0 and a
\* limit no smaller than the table.
C22_CountMatchesQuery ==
  qres.op = "count"
    => \A res \in QueryLogs(0, MaxSerial, qres.arg.conditions) :
         qres.val = Len(res)

\* ------------------------------------------------------------ C23
\* p occurs in s as a contiguous piece
Contains(s, p) ==
  \E i \in 0..(Len(s) - Len(p)) : SubSeq(s, i + 1, i + Len(p)) = p

\* the row satisfies every filter the map holds; a missing, empty or zero
\* filter restricts nothing
Matches(row, conditions) ==
  /\ present(conditions, "method", <<>>) => row.method = conditions["method"]
  /\ present(conditions, "path", <<>>)
       => Contains(row.path, conditions["path"])
  /\ present(conditions, "status_code", 0)
       => row.status_code = conditions["status_code"]
  /\ present(conditions, "start_time", <<>>)
       => row.created_at >= conditions["start_time"][1]
  /\ present(conditions, "end_time", <<>>)
       => row.created_at <= conditions["end_time"][1]

\* the result of the call is the window [offset, offset + limit) of an
\* arrangement, newest first, of the rows of the table that satisfy S
IsWindowOf(S) ==
  \E q \in OrderByCreatedAtDesc(S) :
    LET w == LimitOffset(q, qres.arg.limit, qres.arg.offset)
    IN qres.val = [i \in 1..Len(w) |-> Scan(w[i])]

\* C23: whenever QueryLogs has returned, its result holds exactly the rows
\* of the table that satisfy all filters present in the map (method equal,
\* path containing the filter, status equal, created_at within the bounds),
\* newest first, cut to the positions offset .. offset + limit - 1.
C23_QueryReturnsMatchingWindow ==
  qres.op = "query"
    => IsWindowOf({row \in qres.tbl : Matches(row, qres.arg.conditions)})

\* ------------------------------------------------------------ C24
\* the time days days before the call of DeleteOldLogs
cutoff == qres.at - qres.arg.days * DayLen

\* C24: whenever DeleteOldLogs(days) has returned, the table holds exactly
\* the rows it held before that were created at or after (now - days days),
\* and the call returned the number of the other rows; on the table with
\* rows aged 10, 8, 6 and 1 days DeleteOldLogs(7) returned 2 and left the
\* rows aged 6 and 1.
C24_DeleteRemovesStrictlyOlder ==
  qres.op = "delete"
    => /\ table = {row \in qres.tbl : row.created_at >= cutoff}
       /\ qres.val = Cardinality({row \in qres.tbl : row.created_at < cutoff})
       /\ (qres.tbl = AgedStore.rows /\ qres.at = AgedStore.now
             /\ qres.arg.days = 7)
            => /\ qres.val = 2
               /\ {row.id : row \in table} = {3, 4}

\* DeleteOldLogs has removed rows and kept one created exactly days days
\* before the call
C24_Witness ==
  /\ qres.op = "delete"
  /\ qres.val > 0
  /\ \E row \in table : row.created_at = cutoff

\* ------------------------------------------------------------ C25
\* the rows of a table with a status from 400 on
errorRows(rows) == {row \in rows : row.status_code >= 400}

\* GetStats has returned
statsDone == qres.op = "stats" /\ qres.arg.step = 4

\* C25: whenever GetStats has returned, its error rate is 100 times the
\* number of rows with status_code >= 400 divided by the number of rows of
\* the table its last query read, and 0 if that table was empty; its average
\* duration is 0 if the table its third query read was empty; on the table
\* of four rows created today with statuses 200, 200, 404, 500 and durations
\* 10, 20, 30, 40 it returned today = 4, total = 4, average 25, rate 50.
C25_StatsValues ==
  statsDone
    => /\ IF qres.tbl[4] = {}
          THEN RatioEq(qres.val.rate, <<0, 1>>)
          ELSE RatioEq(qres.val.rate,
                       <<100 * Cardinality(errorRows(qres.tbl[4])),
                             Cardinality(qres.tbl[4])>>)
       /\ qres.tbl[3] = {} => RatioEq(qres.val.avg, <<0, 1>>)
       /\ (qres.at = StatsStore.now
             /\ \A i \in 1..4 : qres.tbl[i] = StatsStore.rows)
            => /\ qres.val.today = 4
               /\ qres.val.total = 4
               /\ RatioEq(qres.val.avg, <<25, 1>>)
               /\ RatioEq(qres.val.rate, <<50, 1>>)

\* GetStats has returned on the table of the four rows created today
C25_Witness ==
  /\ statsDone
  /\ qres.at = StatsStore.now
  /\ \A i \in 1..4 : qres.tbl[i] = StatsStore.rows
  /\ qres.val.total = 4

\* ------------------------------------------------------------ C28
\* C28: the path filter is a literal substring test: whenever QueryLogs has
\* returned for a map that holds only a non-empty path filter, with offset 0
\* and a limit no smaller than the table, the rows it returned are exactly
\* the rows of the table whose path contains the filter string.
C28_PathFilterIsSubstring ==
  (/\ qres.op = "query"
   /\ DOMAIN qres.arg.conditions = {"path"}
   /\ qres.arg.conditions["path"] # <<>>
   /\ qres.arg.offset = 0
   /\ qres.arg.limit = MaxSerial)
    => {qres.val[i].ID : i \in 1..Len(qres.val)}
         = {row.id : row \in {x \in qres.tbl :
                                Contains(x.path, qres.arg.conditions["path"])}}

\* ------------------------------------------------------------ C26
\* C26: a failure to persist one entry is not fatal and not retried: a step
\* of the drain goroutine in which writeEntry / insertEntry fails leaves the
\* goroutine in its loop and the process alive; an entry whose write failed
\* is neither in bufferCh nor in the destination afterwards; and once the
\* destination answers again (no further failure of its own), the write of
\* every later entry the drain goroutine has received succeeds.
C26_FailureIsNotFatal ==
  [][ /\ (drain.pc = "write" /\ drain' # drain /\ failed' # failed)
           => drain'.pc = "select" /\ ~panicked'
      /\ \A e \in failed' : e \notin Range(bufferCh') \cup Range(dest')
      /\ (/\ drain.pc = "write" /\ drain'.pc = "select"
          /\ failed # {} /\ ~canFail /\ handleOpen)
           => drain.entry \in Range(dest')
    ]_vars

\* ------------------------------------------------------------ C27
\* C27: a failure of the store during UpdateConfig or ResetConfig is
\* answered with status 500 and leaves the Config in memory as it is: every
\* step of an admin call after which its response is 500 ends the call and
\* changes neither a field of Config nor a map it refers to, and a call that
\* ends after LoadConfig without reaching the assignments has answered 500.
C27_StoreFailureLeavesConfig ==
  [][ \A a \in Admins :
        /\ (/\ aresp'[a] = 500
            /\ \/ apc'[a] # apc[a]
               \/ aresp'[a] # aresp[a]
               \/ aidx'[a] # aidx[a]
               \/ ops' # ops)
             => /\ apc'[a] = "idle"
                /\ config' = config
                /\ heap' = heap
        /\ (apc[a] = "loaded" /\ apc'[a] = "idle") => aresp'[a] = 500
    ]_vars

\* an admin call has failed in the store after an earlier call had changed
\* the Config
C27_Witness ==
  \E a \in Admins :
    /\ aresp[a] = 500
    /\ apc[a] = "idle"
    /\ Len(cfgHist) > 1

\* ------------------------------------------------------------ C29
\* the custom fields of the entry of request q in heap h and context x
entryFields(h, x, q) == Content(h, x[q][1].CustomFields)

\* C29: the template is copied into each entry, never aliased: a SetLogField
\* call of request r changes neither Config.CustomFields, nor a template
\* map, nor the custom fields of the entry of another request; and a step of
\* UpdateConfig / ResetConfig changes the custom fields of no entry built
\* before it.
C29_TemplateCopiedNotAliased ==
  [][ /\ \A r \in Requests :
           setCalls'[r] # setCalls[r]
             => /\ Content(heap', config'.CustomFields)
                     = Content(heap, config.CustomFields)
                /\ \A t \in TemplateMaps : heap'[t] = heap[t]
                /\ \A q \in Requests \ {r} :
                     ctx[q] # <<>>
                       => ctx'[q] # <<>>
                            /\ entryFields(heap', ctx', q)
                                 = entryFields(heap, ctx, q)
      /\ (apc' # apc \/ aidx' # aidx)
           => \A q \in Requests :
                ctx[q] # <<>>
                  => ctx'[q] # <<>>
                       /\ entryFields(heap', ctx', q)
                            = entryFields(heap, ctx, q)
    ]_vars

\* SetLogField has stored a field in an entry built from a template with
\* fields, the entry of the other request is built from the same template,
\* and the Config has since been given another template
C29_Witness ==
  \E r \in Requests : \E q \in Requests \ {r} :
    /\ ctx[r] # <<>> /\ ctx[q] # <<>>
    /\ setCalls[r] > 0
    /\ <<"user_id", "12345">> \in entryFields(heap, ctx, r)
    /\ entryFields(heap, ctx, q) # {}
    /\ <<"user_id", "12345">> \notin entryFields(heap, ctx, q)
    /\ Content(heap, config.CustomFields) # entryFields(heap, ctx, q)

\* ------------------------------------------------------------ C30
\* C30: Flush() terminates.  Write stages finitely many entries and every
\* pass of flushBuffer that receives one takes it out of the channel, so
\* flushBuffer returns if and only if a pass that finds no entry in the
\* channel takes the default case: such a pass of a Flush() caller ends the
\* call, and such a pass of the drain goroutine's final flushBuffer ends the
\* goroutine, whether the channel is open or closed.
C30_FlushReturnsOnEmptyChannel ==
  [][ /\ \A c \in Callers :
           (pc[c] = "F_select" /\ bufferCh = <<>> /\ pc'[c] # "F_select")
             => pc'[c] = "idle"
      /\ (drain.pc = "flush" /\ bufferCh = <<>> /\ drain'.pc # "flush")
           => drain'.pc = "done"
    ]_vars

\* ------------------------------------------------------------ C31
\* C31: no spurious records: every record in the destination is an entry
\* that Write accepted into the staging channel, written at most once, and
\* neither the drain goroutine nor a flushBuffer call is about to pass the
\* nil entry to writeEntry / insertEntry.
C31_NoSpuriousRecords ==
  /\ \A i \in 1..Len(dest) :
       /\ dest[i] \in (1..(nextId - 1)) \ dropped
       /\ Count(dest, dest[i]) = 1
  /\ drain.pc \in {"write", "flushWrite"} => drain.entry # NilEntry
  /\ \A c \in Callers : pc[c] = "F_write" => entry[c] # NilEntry

\* ------------------------------- concurrent configuration changes
\* "/a,b": a path with a comma in it
CommaPath ==
  <<"/", "a", ",", "b">>

\* "/heal ": a path that ends in a blank
PaddedPath ==
  <<"/", "h", "e", "a", "l", " ">>

\* the skip_paths lists of the UpdateConfig calls
SkipLists == {<<HealthPath, MetricsPath>>, <<CommaPath>>, <<PaddedPath>>}

\* the body {"skip_paths": P}
SkipRequest(P) ==
  [op |-> "update", Enabled |-> <<>>, SkipPaths |-> <<P>>,
   CustomFields |-> <<>>, Async |-> <<>>, BufferSize |-> <<>>]

\* the bodies the admin clients send
AdmRequests == UpdateRequests \cup {SkipRequest(P) : P \in SkipLists}

\* The admin handler under concurrent UpdateConfig calls: gin runs every
\* call in a goroutine of its own, and nothing but the write lock of the
\* Config and the transaction of SaveConfig orders their steps.
AdmNext ==
  \/ \E a \in Admins : \E req \in AdmRequests : UpdateConfigLoad(a, req)
  \/ \E a \in Admins : UpdateConfigSave(a)
  \/ \E a \in Admins : ConfigLock(a)
  \/ \E a \in Admins : ConfigAssign(a)
  \/ \E a \in Admins : ConfigUnlock(a)

AdmSpec == MwInit /\ [][AdmNext]_vars

\* the in-memory Config holds what row holds: the fields UpdateConfig
\* assigns equal the row's, the lists and maps as ParseSkipPaths and
\* ParseCustomFields read them
holdsRow(row) ==
  /\ config.Enabled = row.Enabled
  /\ config.SkipPaths = ParseSkipPaths(row.SkipPaths)
  /\ Content(heap, config.CustomFields) = row.CustomFields
  /\ config.Async = row.AsyncMode
  /\ config.BufferSize = row.BufferSize

\* ------------------------------------------------------------ C32
\* C32: after any set of concurrent UpdateConfig calls has completed (no
\* call is in progress), the in-memory Config (Enabled, SkipPaths,
\* CustomFields, Async, BufferSize) equals the stored configuration row.
C32_MemoryEqualsStoredRow ==
  (\A a \in Admins : apc[a] = "idle") => holdsRow(repo)

\* ------------------------------------------------------------ C34
\* C34: when a ResetConfig call has made its last assignment and answers
\* 200, the in-memory Enabled, Async, BufferSize, CustomFields and SkipPaths
\* equal the values LoadConfig followed by ParseSkipPaths / ParseCustomFields
\* gives for the stored row.
C34_ResetHoldsStoredDefaults ==
  [][ \A a \in Admins :
        (areq[a].op = "reset" /\ apc[a] = "assign" /\ apc'[a] = "idle")
          => holdsRow(repo)'
    ]_vars

\* the in-memory value of field f, a map by its content
fieldValue(c, h, f) ==
  IF f = "CustomFields" THEN Content(h, c[f]) ELSE c[f]

\* ------------------------------------------------------------ C33
\* C33: UpdateConfig changes only the fields present in the request: no
\* step of an UpdateConfig call changes the in-memory value of a field of
\* Enabled, SkipPaths, CustomFields, Async, BufferSize that its request
\* omits, and none changes TimeFormat.
C33_OmittedFieldsKept ==
  [][ \A a \in Admins :
        (areq[a].op = "update" /\ apc[a] \in {"saved", "assign"})
          => /\ config'.TimeFormat = config.TimeFormat
             /\ \A f \in Range(UpdateFields) :
                  areq[a][f] = <<>>
                    => fieldValue(config', heap', f) = fieldValue(config, heap, f)
    ]_vars

\* ------------------------------------------------------------ C35
\* C35: skip paths survive the persistence round trip: when an UpdateConfig
\* call given the list P of skip paths has made its last assignment, the
\* in-memory SkipPaths is the same sequence as P, and a request is skipped
\* if and only if its path equals an element of P.
C35_SkipPathsRoundTrip ==
  [][ \A a \in Admins :
        (/\ areq[a].op = "update" /\ areq[a].SkipPaths # <<>>
         /\ apc[a] = "assign" /\ apc'[a] = "idle")
          => LET P == areq[a].SkipPaths[1]
             IN /\ config'.SkipPaths = P
                /\ \A p \in Paths \cup Range(P) \cup Range(config'.SkipPaths) :
                     isSkipped(config'.SkipPaths, p) <=> p \in Range(P)
    ]_vars

====
